---- MODULE Spec2Model ----
(***************************************************************************)
(* Cascading filter processor (processor/cascadingfilterprocessor):        *)
(* the trace store, the eviction FIFO, the id batcher, the rate arbiter,   *)
(* the ingest path (ConsumeTraces / processTraces) and the decision loop   *)
(* (samplingPolicyOnTick), as a state machine of concurrent ingest callers *)
(* and one ticker goroutine.                                               *)
(*                                                                         *)
(* Trace records are heap objects: the store maps a trace id to a          *)
(* reference, and a caller or the decision loop keeps the reference it     *)
(* loaded even after the id has been evicted (and maybe created again).    *)
(* Timestamps that feed only metrics (ArrivalTime, DecisionTime) and the   *)
(* span contents are left out: a span group is its number of spans.        *)
(***************************************************************************)
EXTENDS Integers, Sequences, FiniteSets, TLC

\* ------------------------------------------------------------------ bounds
NumTraceIds == 2
NumCallers == 2
MaxGroupSpans == 1
MaxIngests == 3
MaxTicks == 2
MaxOps == 4
MaxSecond == 1
MaxNumTraces == 2
MaxPatternLen == 2
MaxMicros == 1
MaxMinSpans == 2
MaxDecisionWait == 3
MaxPolicyCfgs == 2
bufferSize == 2
MaxEvents == 3

\* one id more than the producers of Spec and SerialSpec send
MaxTraceIds == NumTraceIds + 1
TraceIds == 1..MaxTraceIds
Callers == 1..NumCallers
Seconds == 0..MaxSecond

\* ----------------------------------------------------------- configuration
\* cfg.SpansPerSecond, copied into tsp.maxSpansPerSecond
SpansPerSecond == 2
\* uint64(cfg.DecisionWait.Seconds()): the depth of the id batcher
numDecisionBatches == 1
\* tsp.policies: the probabilistic pre-filter first, then one configured policy
policies ==
    << [Name |-> "probabilistic_filter", probabilisticFilter |-> TRUE],
       [Name |-> "test-policy-1", probabilisticFilter |-> FALSE] >>
lenPolicies == Len(policies)

Pointers(S) == {<< >>} \cup {<< v >> : v \in S}
\* time.Duration in units of half a second
DurationsPerSecond == 2
\* cfg.DecisionWait: from one second up, which is what gives idbatcher.New a
\* depth it accepts
DecisionWaits == DurationsPerSecond..(MaxDecisionWait * DurationsPerSecond)
\* cfg.ProbabilisticFilteringRatio, a pointer to a ratio, in halves
Ratios == Pointers(-1..2)
\* cfg.PolicyCfgs: the configured policies, told apart by their names
PolicyNames == {"test-policy-1", "test-policy-2"}
PolicyCfgLists ==
    UNION {[1..n -> [Name : PolicyNames]] : n \in 0..MaxPolicyCfgs}
\* the configuration of the engine that the constants above describe
DefaultCfg ==
    [ DecisionWait |-> numDecisionBatches * DurationsPerSecond,
      ProbabilisticFilteringRatio |-> << 1 >>,
      PolicyCfgs |-> << [Name |-> "test-policy-1"] >> ]

\* config.PolicyCfg.PropertiesCfg: three optional fields, pointers in the
\* code: << >> is nil, << v >> points to v. A name pattern is a sequence of
\* characters.
Nil == "nil"
PatternChars == {"a", "(", ")", "*"}
Patterns == UNION {[1..n -> PatternChars] : n \in 0..MaxPatternLen}
PolicyCfgs ==
    [ NamePattern : Pointers(Patterns),
      MinDurationMicros : Pointers(-MaxMicros..MaxMicros),
      MinNumberOfSpans : Pointers(-1..MaxMinSpans) ]
NoPropertiesCfg ==
    [NamePattern |-> << >>, MinDurationMicros |-> << >>, MinNumberOfSpans |-> << >>]

\* regexp.Compile on the patterns above: the parentheses must match, and a
\* repetition needs something to repeat that is not itself a repetition.
\* depth is the number of groups open before position j.
RECURSIVE regexpDepth(_, _)
regexpDepth(pattern, j) ==
    IF j = 1 THEN 0
    ELSE regexpDepth(pattern, j - 1)
         + (IF pattern[j - 1] = "(" THEN 1 ELSE 0)
         - (IF pattern[j - 1] = ")" THEN 1 ELSE 0)

regexpCompileErr(pattern) ==
    \/ \E j \in 1..Len(pattern) :
          \/ pattern[j] = ")" /\ regexpDepth(pattern, j) = 0
          \/ pattern[j] = "*" /\ (j = 1 \/ pattern[j - 1] \in {"(", "*"})
    \/ regexpDepth(pattern, Len(pattern) + 1) # 0

\* a NewFilter that takes any number of spans
NewFilterAnyMinSpans(cfg) ==
    IF cfg.NamePattern # << >> /\ regexpCompileErr(cfg.NamePattern[1])
    THEN [evaluator |-> << >>, err |-> "regexp"]
    ELSE IF cfg.MinDurationMicros # << >> /\ cfg.MinDurationMicros[1] < 0
    THEN [evaluator |-> << >>,
          err |-> "minimum span duration must be a non-negative number"]
    ELSE [evaluator |-> << [operationRe |-> cfg.NamePattern,
                            minDurationMicros |-> cfg.MinDurationMicros,
                            minNumberOfSpans |-> cfg.MinNumberOfSpans] >>,
          err |-> Nil]

\* sampling.NewFilter: the evaluator, or the first configuration error
NewFilter(cfg) ==
    IF cfg.NamePattern # << >> /\ regexpCompileErr(cfg.NamePattern[1])
    THEN [evaluator |-> << >>, err |-> "regexp"]
    ELSE IF cfg.MinDurationMicros # << >> /\ cfg.MinDurationMicros[1] < 0
    THEN [evaluator |-> << >>,
          err |-> "minimum span duration must be a non-negative number"]
    ELSE IF cfg.MinNumberOfSpans # << >> /\ cfg.MinNumberOfSpans[1] < 1
    THEN [evaluator |-> << >>,
          err |-> "minimum number of spans must be a positive number"]
    ELSE [evaluator |-> << [operationRe |-> cfg.NamePattern,
                            minDurationMicros |-> cfg.MinDurationMicros,
                            minNumberOfSpans |-> cfg.MinNumberOfSpans] >>,
          err |-> Nil]

\* a constructor that appends the probabilistic pre-filter after the
\* configured policies
newPoliciesFilterLast(c) ==
    [i \in 1..Len(c.PolicyCfgs) |->
        [Name |-> c.PolicyCfgs[i].Name, probabilisticFilter |-> FALSE]]
    \o (IF c.ProbabilisticFilteringRatio # << >>
           /\ c.ProbabilisticFilteringRatio[1] > 0
        THEN << [Name |-> "probabilistic_filter", probabilisticFilter |-> TRUE] >>
        ELSE << >>)

\* newCascadingFilterSpanProcessor, "var policies []*Policy" as the engine
\* gets it: the probabilistic filter is appended first, if
\* cfg.ProbabilisticFilteringRatio != nil && *cfg.ProbabilisticFilteringRatio
\* > 0.0, then one policy for every entry of cfg.PolicyCfgs, in order
newPolicies(c) ==
    (IF c.ProbabilisticFilteringRatio # << >>
        /\ c.ProbabilisticFilteringRatio[1] > 0
     THEN << [Name |-> "probabilistic_filter", probabilisticFilter |-> TRUE] >>
     ELSE << >>)
    \o [i \in 1..Len(c.PolicyCfgs) |->
          [Name |-> c.PolicyCfgs[i].Name, probabilisticFilter |-> FALSE]]

\* numDecisionBatches := uint64(cfg.DecisionWait.Seconds()): the conversion
\* of the seconds, a float64, to an integer drops the fraction
numDecisionBatchesOf(decisionWait) == decisionWait \div DurationsPerSecond

\* the fields of the engine that newCascadingFilterSpanProcessor derives from
\* the configuration c: tsp.policies and the depth idbatcher.New is given
Engine(c) ==
    [ policies |-> newPolicies(c),
      numDecisionBatches |-> numDecisionBatchesOf(c.DecisionWait) ]

\* no engine
NoEngine == [policies |-> << >>, numDecisionBatches |-> 0]

\* ------------------------------------------------------ sampling.Decision
Unspecified == "Unspecified"
Pending == "Pending"
Sampled == "Sampled"
NotSampled == "NotSampled"
SecondChance == "SecondChance"
\* what a policy's Evaluate may return: a decision, or an error
EvalError == "error"
\* The evaluators configured: per policy, the results its Evaluate can give.
\* AnyEvaluators: every policy can give every result. RuleEvaluators: a
\* pre-filter that admits or rejects, then a cascading rule whose own budget
\* is used up (a second chance at best) and which may fail.
AnyEvaluators ==
    [i \in 1..lenPolicies |-> {Sampled, NotSampled, SecondChance, EvalError}]
RuleEvaluators ==
    [i \in 1..lenPolicies |->
        IF policies[i].probabilisticFilter THEN {Sampled, NotSampled}
        ELSE {SecondChance, EvalError}]
\* the same for the policies ps of an engine just built
RuleEvaluatorsOf(ps) ==
    [i \in 1..Len(ps) |->
        IF ps[i].probabilisticFilter THEN {Sampled, NotSampled}
        ELSE {SecondChance, EvalError}]

\* ------------------------------------------------------------------- state
VARIABLES
    maxNumTraces,          \* cfg.NumTraces: capacity of deleteChan
    evaluators,            \* cfg.PolicyCfgs: what each policy's Evaluate can give
    idToTrace,             \* sync.Map: trace id -> heap reference, 0 = no entry
    heap,                  \* reference -> *sampling.TraceData
    deleteChan,            \* chan traceKey, the eviction FIFO
    numTracesOnMap,        \* atomic counter of live records
    currentBatch,          \* id batcher: the batch being filled
    batches,               \* id batcher: the closed batches, oldest first
    currentSecond,         \* rate arbiter
    spansInCurrentSecond,  \* rate arbiter
    started,               \* tsp.start (sync.Once): the tickers started
    now,                   \* time.Now().Unix()
    ingest,                \* per caller: position and locals of ConsumeTraces
    tick,                  \* position and locals of samplingPolicyOnTick
    ningests,              \* calls started so far (bounded by MaxIngests)
    nticks,                \* ticks fired so far (bounded by MaxTicks)
    consumed,              \* what nextConsumer.ConsumeTraces has received
    policyCfg,             \* config.PolicyCfg of the configured policy
    lifecycle,             \* "new", "created", "failed" (no engine), "shutdown"
    sentIds,               \* the trace ids the producers' spans carry
    consumerFails,         \* nextConsumer.ConsumeTraces returns an error
    observeLate,           \* the evaluators keep what OnLateArrivingSpans is given
    cfg,                   \* config.Config: DecisionWait, the ratio, the PolicyCfgs
    tsp,                   \* the engine built: its policies, its batcher's depth
    em,                    \* the eventMachine of the group-by-auth processor
    sentSpans              \* the sizes of the span groups the producers send

vars == << maxNumTraces, evaluators, idToTrace, heap, deleteChan, numTracesOnMap,
           currentBatch, batches, currentSecond, spansInCurrentSecond,
           started, now, ingest, tick, ningests, nticks, consumed,
           policyCfg, lifecycle, sentIds, consumerFails, observeLate, cfg,
           tsp, em, sentSpans >>

\* what no step of a running engine changes
fixed == << maxNumTraces, evaluators, policyCfg, sentIds, consumerFails,
           observeLate, cfg, tsp, em, sentSpans >>

\* ------------------------------------------------------------ event machine
\* eventType
EventTypes == {"batchReceived", "tokenExpired", "batchReleased", "tokenRemoved"}

\* newEventMachine(logger, bufferSize): events is the buffered channel, close
\* the channel that shutdown closes (FALSE: open), callbacks the event types
\* whose callback is set (none yet). What the goroutines of the machine are
\* at: loop is the position of start ("new": not started; "select";
\* "doWithTimeout": in the select of doWithTimeout for the callback numbered
\* current; "returned"), done whether the result of that callback is in its
\* done channel, executing the callbacks that run, each with the number of
\* its event; fired, dequeued and errors count the events accepted, the events
\* taken off the channel and the calls of onError.
newEventMachine ==
    [ events |-> << >>, close |-> FALSE, closed |-> FALSE, callbacks |-> {},
      loop |-> "new", current |-> 0, done |-> FALSE, executing |-> {},
      fired |-> 0, dequeued |-> 0, errors |-> 0 ]

\* ------------------------------------------------------------ trace records
MaxRecs == MaxTraceIds + NumCallers + 1
Refs == 1..MaxRecs
NoRec == [free |-> TRUE]

\* a new record that does not count the spans that came with it
initialTraceDataUncounted(lenSpans, arrival) ==
    [ Decisions |-> [i \in 1..lenPolicies |-> Pending],
      ArrivalTime |-> arrival,
      Slot |-> nticks,
      SpanCount |-> 0,
      Delivered |-> lenSpans,
      ReceivedBatches |-> << >>,
      FinalDecision |-> Unspecified,
      SelectedByProbabilisticFilter |-> FALSE,
      Emits |-> 0 ]

\* &sampling.TraceData{Decisions: initialDecisions, ArrivalTime: time.Now(),
\* SpanCount: lenSpans}; the time of arrival is the number of the call.
\* Emits counts the decision-loop forwards of this record that carried spans,
\* Delivered the spans of the span groups that ingest calls brought for it.
\* Slot is the batcher slot that is being filled, and gets the record's id:
\* the slots are numbered by the ticks that came before them.
initialTraceData(lenSpans, arrival) ==
    [ Decisions |-> [i \in 1..lenPolicies |-> Pending],
      ArrivalTime |-> arrival,
      Slot |-> nticks,
      SpanCount |-> lenSpans,
      Delivered |-> lenSpans,
      ReceivedBatches |-> << >>,
      FinalDecision |-> Unspecified,
      SelectedByProbabilisticFilter |-> FALSE,
      Emits |-> 0 ]

Range(s) == {s[j] : j \in 1..Len(s)}

RECURSIVE SumSeq(_)
SumSeq(s) == IF s = << >> THEN 0 ELSE Head(s) + SumSeq(Tail(s))

Min(S) == CHOOSE x \in S : \A y \in S : x <= y

\* The references reachable from the store, a caller or the decision loop.
Reachable(store, ing, tk) ==
    ({store[t] : t \in TraceIds} \cup {ing[c].actualData : c \in Callers}
        \cup {tk.trace}) \ {0}

\* Garbage collection: a record nothing refers to is gone.
Collect(h, store, ing, tk) ==
    [r \in Refs |-> IF r \in Reachable(store, ing, tk) THEN h[r] ELSE NoRec]

NewRef == Min({r \in Refs : heap[r] = NoRec})

Live == {t \in TraceIds : idToTrace[t] # 0}

IdleCaller ==
    [ pc |-> "idle", id |-> 0, lenSpans |-> 0, actualData |-> 0, i |-> 0,
      traceKeyToDrop |-> 0, err |-> Nil, actualDecision |-> Nil ]

\* forwarded is the record of the second run: per id of the batch, whether
\* the trace was handed to the consumer; spansAtStart is the arbiter's count
\* as the tick found it (0 when the second has changed); result is what the
\* last Evaluate of the trace under evaluation returned; firstRun and
\* secondRun are the ids the two runs have visited, offers the calls of
\* updateRate: the id, the decision that led to the call, the answer and
\* whether the record was marked as selected by the probabilistic filter;
\* tags are the calls of updateProbabilisticRateTag.
IdleTick ==
    [ pc |-> "idle", batch |-> << >>, k |-> 0, trace |-> 0, p |-> 0,
      provisionalDecision |-> Unspecified, matchingPolicy |-> 0,
      currSecond |-> 0, totalSpans |-> 0,
      selectedByProbabilisticFilterSpans |-> 0,
      idNotFoundOnMapCount |-> 0, evaluateErrorCount |-> 0,
      spansAtStart |-> 0, forwarded |-> << >>, result |-> Nil,
      firstRun |-> << >>, secondRun |-> << >>, offers |-> << >>,
      tags |-> << >> ]

\* The downstream consumer's record. Per second: the spans it got from the
\* decision loop (loop, by the second the tick read), the span_count of the
\* traces the loop gave the final decision Sampled, as the loop read it when
\* it decided (admitted), the spans of late arrivals (late, by
\* the second of the call) and all spans (all). Per trace id: the forwards of
\* the decision loop (counted up to 2). latePolicy: the policy whose context
\* came with the last late span group (0: none yet). failed: the calls it
\* answered with an error. notified: what the evaluators were given in
\* OnLateArrivingSpans, in order, where they keep it.
NoneConsumed ==
    [ loop |-> [s \in Seconds |-> 0],
      admitted |-> [s \in Seconds |-> 0],
      late |-> [s \in Seconds |-> 0],
      all |-> [s \in Seconds |-> 0],
      loopById |-> [t \in TraceIds |-> 0],
      latePolicy |-> 0,
      failed |-> 0,
      notified |-> << >> ]

\* the fields of a new cascadingFilterSpanProcessor, an empty batcher, no
\* call or tick yet
Zeroed ==
    /\ idToTrace = [t \in TraceIds |-> 0]
    /\ heap = [r \in Refs |-> NoRec]
    /\ deleteChan = << >>
    /\ numTracesOnMap = 0
    /\ currentBatch = << >>
    /\ batches = [j \in 1..(numDecisionBatches - 1) |-> << >>]
    /\ currentSecond = 0
    /\ spansInCurrentSecond = 0
    /\ started = 0
    /\ now = 0
    /\ ingest = [c \in Callers |-> IdleCaller]
    /\ tick = IdleTick
    /\ ningests = 0
    /\ nticks = 0
    /\ consumed = NoneConsumed

\* newCascadingFilterSpanProcessor has returned the engine: a valid policy
\* configuration, a consumer that accepts what it is given
Created ==
    /\ Zeroed
    /\ maxNumTraces \in 1..MaxNumTraces
    /\ policyCfg = NoPropertiesCfg
    /\ lifecycle = "created"
    /\ sentIds = 1..NumTraceIds
    /\ sentSpans = 1..MaxGroupSpans
    /\ consumerFails = FALSE
    /\ observeLate = FALSE
    /\ cfg = DefaultCfg
    /\ tsp = Engine(cfg)
    /\ em = newEventMachine


\* ------------------------------------------------------ downstream consumer
\* the decision loop, in a tick that read second s, gives the final decision
\* Sampled to a trace of spanCount spans
Admitted(c0, s, spanCount) == [c0 EXCEPT !.admitted[s] = @ + spanCount]

\* a decision loop that calls the consumer again when the consumer fails
LoopForwardRetrying(c0, id, s, n) ==
    [c0 EXCEPT !.loop[s] = @ + n, !.all[s] = @ + n,
               !.loopById[id] = IF @ < 2 THEN @ + 1 ELSE @,
               !.failed = IF consumerFails THEN @ + 2 ELSE @]

\* nextConsumer.ConsumeTraces(tsp.ctx, allSpans) called by the decision loop
\* for trace id, in a tick that read second s, with n spans
LoopForward(c0, id, s, n) ==
    [c0 EXCEPT !.loop[s] = @ + n, !.all[s] = @ + n,
               !.loopById[id] = IF @ < 2 THEN @ + 1 ELSE @,
               !.failed = IF consumerFails THEN @ + 1 ELSE @]

\* nextConsumer.ConsumeTraces(policy.ctx, traceTd) called by processTraces for
\* a late span group of n spans, in second s, under policy i
LateForward(c0, s, n, i) ==
    [c0 EXCEPT !.late[s] = @ + n, !.all[s] = @ + n, !.latePolicy = i,
               !.failed = IF consumerFails THEN @ + 1 ELSE @]

\* policy.Evaluator.OnLateArrivingSpans(actualDecision, spans) of policy i
OnLateArrivingSpans(c0, i, actualDecision) ==
    IF observeLate
    THEN [c0 EXCEPT !.notified = Append(@, [policy |-> i,
                                            decision |-> actualDecision])]
    ELSE c0

\* -------------------------------------------------------------- rate arbiter
updateRateStrict(cs, used, currSecond, numSpans) ==
    LET base == IF cs # currSecond THEN 0 ELSE used IN
    IF base + numSpans < SpansPerSecond
    THEN [decision |-> Sampled, currentSecond |-> currSecond,
          spansInCurrentSecond |-> base + numSpans]
    ELSE [decision |-> NotSampled, currentSecond |-> currSecond,
          spansInCurrentSecond |-> base]

updateRateNoLimit(cs, used, currSecond, numSpans) ==
    LET base == IF cs # currSecond THEN 0 ELSE used IN
    [decision |-> Sampled, currentSecond |-> currSecond,
     spansInCurrentSecond |-> base + numSpans]

\* an arbiter that carries the count over into the next second
updateRateNoReset(cs, used, currSecond, numSpans) ==
    IF used + numSpans <= SpansPerSecond
    THEN [decision |-> Sampled, currentSecond |-> currSecond,
          spansInCurrentSecond |-> used + numSpans]
    ELSE [decision |-> NotSampled, currentSecond |-> currSecond,
          spansInCurrentSecond |-> used]

\* an arbiter that demotes what does not fit
updateRateDemoting(cs, used, currSecond, numSpans) ==
    LET base == IF cs # currSecond THEN 0 ELSE used IN
    IF base + numSpans <= SpansPerSecond
    THEN [decision |-> Sampled, currentSecond |-> currSecond,
          spansInCurrentSecond |-> base + numSpans]
    ELSE [decision |-> SecondChance, currentSecond |-> currSecond,
          spansInCurrentSecond |-> base]

\* updateRate(currSecond, numSpans) on the arbiter state (cs, used): the
\* decision and the new arbiter state
updateRate(cs, used, currSecond, numSpans) ==
    LET base == IF cs # currSecond THEN 0 ELSE used IN
    IF base + numSpans <= SpansPerSecond
    THEN [decision |-> Sampled, currentSecond |-> currSecond,
          spansInCurrentSecond |-> base + numSpans]
    ELSE [decision |-> NotSampled, currentSecond |-> currSecond,
          spansInCurrentSecond |-> base]

\* ---------------------------------------------------------------- id batcher
\* AddToCurrentBatch(id)
AddToCurrentBatch(cur, id) == Append(cur, id)

\* CloseCurrentAndTakeFirstBatch(): the closed batches with the current one
\* appended; the first is returned, the rest stay
CloseCurrentAndTakeFirstBatch(bs, cur) ==
    LET q == Append(bs, cur) IN [batch |-> Head(q), batches |-> Tail(q)]

\* -------------------------------------------------------------- ingest path
\* a ConsumeTraces that starts the ticker in every call
startDoEveryCall(n) == n + 1

\* tsp.start.Do(func() { tsp.policyTicker.Start(1 * time.Second) }) on the
\* number n of tickers started so far: the function runs in the first call
startDo(n) == IF n = 0 THEN 1 ELSE n

\* The callers are interchangeable: a call is started by the first idle one.
FirstIdle(c) == \A b \in Callers : b < c => ingest[b].pc # "idle"

\* ConsumeTraces with one (id, span group): tsp.start.Do starts the ticker;
\* processTraces: d, loaded := tsp.idToTrace.LoadOrStore(id, initialTraceData);
\* not loaded: decisionBatcher.AddToCurrentBatch(id), numTracesOnMap++
ConsumeTraces(c) ==
    /\ lifecycle = "created"
    /\ ingest[c].pc = "idle"
    /\ FirstIdle(c)
    /\ ningests < MaxIngests
    /\ ningests + nticks < MaxOps
    /\ ningests' = ningests + 1
    /\ started' = startDo(started)
    /\ \E id \in sentIds, lenSpans \in sentSpans :
          IF idToTrace[id] # 0
          THEN /\ ingest' = [ingest EXCEPT ![c] =
                                [IdleCaller EXCEPT !.pc = "AddSpanCount", !.id = id,
                                                   !.lenSpans = lenSpans,
                                                   !.actualData = idToTrace[id]]]
               /\ heap' = [heap EXCEPT ![idToTrace[id]].Delivered = @ + lenSpans]
               /\ UNCHANGED << idToTrace, currentBatch, numTracesOnMap >>
          ELSE /\ idToTrace' = [idToTrace EXCEPT ![id] = NewRef]
               /\ heap' = [heap EXCEPT ![NewRef] =
                                          initialTraceData(lenSpans, ningests')]
               /\ currentBatch' = AddToCurrentBatch(currentBatch, id)
               /\ numTracesOnMap' = numTracesOnMap + 1
               /\ ingest' = [ingest EXCEPT ![c] =
                                [IdleCaller EXCEPT !.pc = "select", !.id = id,
                                                   !.lenSpans = lenSpans,
                                                   !.actualData = NewRef]]
    /\ UNCHANGED << fixed, lifecycle, deleteChan, batches, currentSecond,
                    spansInCurrentSecond, now, tick, nticks, consumed >>

\* an ingest that stores the size of its span group as the record's count
AddSpanCountOverwriting(c) ==
    LET me == ingest[c] IN
    /\ me.pc = "AddSpanCount"
    /\ heap' = [heap EXCEPT ![me.actualData].SpanCount = me.lenSpans]
    /\ ingest' = [ingest EXCEPT ![c].pc = "policy", ![c].i = 1]
    /\ UNCHANGED << fixed, lifecycle, idToTrace, deleteChan, numTracesOnMap,
                    currentBatch, batches, currentSecond, spansInCurrentSecond,
                    started, now, tick, ningests, nticks, consumed >>

\* an ingest that counts a record it found in the store as a new one
AddSpanCountAsNew(c) ==
    LET me == ingest[c] IN
    /\ me.pc = "AddSpanCount"
    /\ heap' = [heap EXCEPT ![me.actualData].SpanCount = @ + me.lenSpans]
    /\ numTracesOnMap' = numTracesOnMap + 1
    /\ ingest' = [ingest EXCEPT ![c].pc = "policy", ![c].i = 1]
    /\ UNCHANGED << fixed, lifecycle, idToTrace, deleteChan,
                    currentBatch, batches, currentSecond, spansInCurrentSecond,
                    started, now, tick, ningests, nticks, consumed >>

\* loaded: atomic.AddInt64(&actualData.SpanCount, lenSpans)
AddSpanCount(c) ==
    LET me == ingest[c] IN
    /\ me.pc = "AddSpanCount"
    /\ heap' = [heap EXCEPT ![me.actualData].SpanCount = @ + me.lenSpans]
    /\ ingest' = [ingest EXCEPT ![c].pc = "policy", ![c].i = 1]
    /\ UNCHANGED << fixed, lifecycle, idToTrace, deleteChan, numTracesOnMap,
                    currentBatch, batches, currentSecond, spansInCurrentSecond,
                    started, now, tick, ningests, nticks, consumed >>

SelectSendOffByOne(c) ==
    LET me == ingest[c] IN
    /\ me.pc = "select"
    /\ IF Len(deleteChan) <= maxNumTraces
       THEN /\ deleteChan' = Append(deleteChan, me.id)
            /\ ingest' = [ingest EXCEPT ![c].pc = "policy", ![c].i = 1]
       ELSE /\ ingest' = [ingest EXCEPT ![c].pc = "receive"]
            /\ UNCHANGED deleteChan
    /\ UNCHANGED << fixed, lifecycle, idToTrace, heap, numTracesOnMap, currentBatch,
                    batches, currentSecond, spansInCurrentSecond, started, now,
                    tick, ningests, nticks, consumed >>

\* the callers blocked in <-tsp.deleteChan
Receivers == {b \in Callers : ingest[b].pc = "receive"}

\* select { case tsp.deleteChan <- id: postDeletion = true; default: ... }
\* The send is ready while the buffer has room or, on a channel without
\* buffer, while a receiver waits, which then gets the id at once.
SelectSend(c) ==
    LET me == ingest[c] IN
    /\ me.pc = "select"
    /\ IF Len(deleteChan) < maxNumTraces
       THEN /\ deleteChan' = Append(deleteChan, me.id)
            /\ ingest' = [ingest EXCEPT ![c].pc = "policy", ![c].i = 1]
       ELSE IF maxNumTraces = 0 /\ Receivers # {}
       THEN /\ \E b \in Receivers :
                  ingest' = [ingest EXCEPT ![c].pc = "policy", ![c].i = 1,
                                           ![b].pc = "dropTrace",
                                           ![b].traceKeyToDrop = me.id]
            /\ UNCHANGED deleteChan
       ELSE /\ ingest' = [ingest EXCEPT ![c].pc = "receive"]
            /\ UNCHANGED deleteChan
    /\ UNCHANGED << fixed, lifecycle, idToTrace, heap, numTracesOnMap, currentBatch,
                    batches, currentSecond, spansInCurrentSecond, started, now,
                    tick, ningests, nticks, consumed >>

\* a receive that takes the id queued last
ReceiveNewest(c) ==
    /\ ingest[c].pc = "receive"
    /\ deleteChan # << >>
    /\ ingest' = [ingest EXCEPT ![c].pc = "dropTrace",
                                ![c].traceKeyToDrop = deleteChan[Len(deleteChan)]]
    /\ deleteChan' = SubSeq(deleteChan, 1, Len(deleteChan) - 1)
    /\ UNCHANGED << fixed, lifecycle, idToTrace, heap, numTracesOnMap, currentBatch,
                    batches, currentSecond, spansInCurrentSecond, started, now,
                    tick, ningests, nticks, consumed >>

\* a receive that leaves the id it takes in the FIFO
ReceivePeeking(c) ==
    /\ ingest[c].pc = "receive"
    /\ deleteChan # << >>
    /\ ingest' = [ingest EXCEPT ![c].pc = "dropTrace",
                                ![c].traceKeyToDrop = Head(deleteChan)]
    /\ UNCHANGED << fixed, lifecycle, idToTrace, heap, numTracesOnMap, currentBatch,
                    batches, currentSecond, spansInCurrentSecond, started, now,
                    tick, ningests, nticks, consumed, deleteChan >>

\* default: traceKeyToDrop := <-tsp.deleteChan (blocks while the FIFO is empty)
Receive(c) ==
    /\ ingest[c].pc = "receive"
    /\ deleteChan # << >>
    /\ ingest' = [ingest EXCEPT ![c].pc = "dropTrace",
                                ![c].traceKeyToDrop = Head(deleteChan)]
    /\ deleteChan' = Tail(deleteChan)
    /\ UNCHANGED << fixed, lifecycle, idToTrace, heap, numTracesOnMap, currentBatch,
                    batches, currentSecond, spansInCurrentSecond, started, now,
                    tick, ningests, nticks, consumed >>

\* a drop that deletes the record and leaves the counter as it was
dropTraceUncounted(c) ==
    LET me == ingest[c] IN
    /\ me.pc = "dropTrace"
    /\ IF idToTrace[me.traceKeyToDrop] # 0
       THEN /\ idToTrace' = [idToTrace EXCEPT ![me.traceKeyToDrop] = 0]
            /\ UNCHANGED numTracesOnMap
       ELSE UNCHANGED << idToTrace, numTracesOnMap >>
    /\ ingest' = [ingest EXCEPT ![c].pc = "select", ![c].traceKeyToDrop = 0]
    /\ heap' = Collect(heap, idToTrace', ingest', tick)
    /\ UNCHANGED << fixed, lifecycle, deleteChan, currentBatch, batches,
                    currentSecond, spansInCurrentSecond, started, now, tick,
                    ningests, nticks, consumed >>

\* tsp.dropTrace(traceKeyToDrop, currTime), then the select again
dropTrace(c) ==
    LET me == ingest[c] IN
    /\ me.pc = "dropTrace"
    /\ IF idToTrace[me.traceKeyToDrop] # 0
       THEN /\ idToTrace' = [idToTrace EXCEPT ![me.traceKeyToDrop] = 0]
            /\ numTracesOnMap' = numTracesOnMap - 1
       ELSE UNCHANGED << idToTrace, numTracesOnMap >>
    /\ ingest' = [ingest EXCEPT ![c].pc = "select", ![c].traceKeyToDrop = 0]
    /\ heap' = Collect(heap, idToTrace', ingest', tick)
    /\ UNCHANGED << fixed, lifecycle, deleteChan, currentBatch, batches,
                    currentSecond, spansInCurrentSecond, started, now, tick,
                    ningests, nticks, consumed >>

\* a policy loop that goes on to the next policy after it has forwarded
PolicyLoopNoStop(c) ==
    LET me == ingest[c]
        actualDecision == heap[me.actualData].Decisions[me.i]
        returned == [ingest EXCEPT ![c] = IdleCaller]
        next == IF me.i < lenPolicies THEN [ingest EXCEPT ![c].i = @ + 1]
                ELSE returned
    IN
    /\ me.pc = "policy"
    /\ CASE actualDecision = Pending ->
                /\ ingest' = returned
                /\ heap' = Collect([heap EXCEPT ![me.actualData].ReceivedBatches =
                                                    Append(@, me.lenSpans)],
                                   idToTrace, ingest', tick)
                /\ UNCHANGED consumed
         [] actualDecision = Sampled ->
                /\ consumed' = OnLateArrivingSpans(
                                   LateForward(consumed, now, me.lenSpans, me.i),
                                   me.i, Sampled)
                /\ ingest' = next
                /\ heap' = Collect(heap, idToTrace, ingest', tick)
         [] OTHER ->
                /\ ingest' = next
                /\ heap' = Collect(heap, idToTrace, ingest', tick)
                /\ consumed' = IF actualDecision = NotSampled
                               THEN OnLateArrivingSpans(consumed, me.i, NotSampled)
                               ELSE consumed
    /\ UNCHANGED << fixed, lifecycle, idToTrace, deleteChan, numTracesOnMap,
                    currentBatch, batches, currentSecond, spansInCurrentSecond,
                    started, now, tick, ningests, nticks >>

\* a policy loop that goes on to the next policy after it has appended
PolicyLoopNoBreak(c) ==
    LET me == ingest[c]
        actualDecision == heap[me.actualData].Decisions[me.i]
        returned == [ingest EXCEPT ![c] = IdleCaller]
        next == IF me.i < lenPolicies THEN [ingest EXCEPT ![c].i = @ + 1]
                ELSE returned
    IN
    /\ me.pc = "policy"
    /\ CASE actualDecision = Pending ->
                /\ ingest' = next
                /\ heap' = Collect([heap EXCEPT ![me.actualData].ReceivedBatches =
                                                    Append(@, me.lenSpans)],
                                   idToTrace, ingest', tick)
                /\ UNCHANGED consumed
         [] actualDecision = Sampled ->
                /\ consumed' = OnLateArrivingSpans(
                                   LateForward(consumed, now, me.lenSpans, me.i),
                                   me.i, Sampled)
                /\ ingest' = returned
                /\ heap' = Collect(heap, idToTrace, ingest', tick)
         [] OTHER ->
                /\ ingest' = next
                /\ heap' = Collect(heap, idToTrace, ingest', tick)
                /\ consumed' = IF actualDecision = NotSampled
                               THEN OnLateArrivingSpans(consumed, me.i, NotSampled)
                               ELSE consumed
    /\ UNCHANGED << fixed, lifecycle, idToTrace, deleteChan, numTracesOnMap,
                    currentBatch, batches, currentSecond, spansInCurrentSecond,
                    started, now, tick, ningests, nticks >>

\* One iteration of "for i, policy := range tsp.policies": the decision is read
\* and, while Pending, the span group appended, under the record's lock; a
\* Sampled decision forwards the group; after the append, after the forward
\* and after the last policy the call returns and its reference is dropped.
PolicyLoop(c) ==
    LET me == ingest[c]
        actualDecision == heap[me.actualData].Decisions[me.i]
        returned == [ingest EXCEPT ![c] = IdleCaller]
    IN
    /\ me.pc = "policy"
    /\ CASE actualDecision = Pending ->
                /\ ingest' = returned
                /\ heap' = Collect([heap EXCEPT ![me.actualData].ReceivedBatches =
                                                    Append(@, me.lenSpans)],
                                   idToTrace, ingest', tick)
                /\ UNCHANGED consumed
         [] actualDecision = Sampled ->
                /\ consumed' = OnLateArrivingSpans(
                                   LateForward(consumed, now, me.lenSpans, me.i),
                                   me.i, Sampled)
                /\ ingest' = returned
                /\ heap' = Collect(heap, idToTrace, ingest', tick)
         [] OTHER ->
                /\ ingest' = IF me.i < lenPolicies
                             THEN [ingest EXCEPT ![c].i = @ + 1]
                             ELSE returned
                /\ heap' = Collect(heap, idToTrace, ingest', tick)
                /\ consumed' = IF actualDecision = NotSampled
                               THEN OnLateArrivingSpans(consumed, me.i, NotSampled)
                               ELSE consumed
    /\ UNCHANGED << fixed, lifecycle, idToTrace, deleteChan, numTracesOnMap,
                    currentBatch, batches, currentSecond, spansInCurrentSecond,
                    started, now, tick, ningests, nticks >>

\* The same iteration in its two memory accesses. actualData.Lock();
\* actualDecision := actualData.Decisions[i]: the call holds the record's lock
\* from here to the end of the iteration, which keeps other calls and the
\* second run out, but not makeProvisionalDecision, which writes Decisions[i]
\* without taking the lock.
ReadActualDecision(c) ==
    LET me == ingest[c] IN
    /\ me.pc = "policy"
    /\ \A b \in Callers : ingest[b].pc = "locked" => ingest[b].actualData # me.actualData
    /\ ingest' = [ingest EXCEPT ![c].pc = "locked",
                                ![c].actualDecision = heap[me.actualData].Decisions[me.i]]
    /\ UNCHANGED << fixed, lifecycle, idToTrace, heap, deleteChan, numTracesOnMap,
                    currentBatch, batches, currentSecond, spansInCurrentSecond,
                    started, now, tick, ningests, nticks, consumed >>

\* if actualDecision == sampling.Pending { append; Unlock; break }, else
\* Unlock and the switch on actualDecision
AfterActualDecision(c) ==
    LET me == ingest[c]
        returned == [ingest EXCEPT ![c] = IdleCaller]
    IN
    /\ me.pc = "locked"
    /\ CASE me.actualDecision = Pending ->
                /\ ingest' = returned
                /\ heap' = Collect([heap EXCEPT ![me.actualData].ReceivedBatches =
                                                    Append(@, me.lenSpans)],
                                   idToTrace, ingest', tick)
                /\ UNCHANGED consumed
         [] me.actualDecision = Sampled ->
                /\ consumed' = OnLateArrivingSpans(
                                   LateForward(consumed, now, me.lenSpans, me.i),
                                   me.i, Sampled)
                /\ ingest' = returned
                /\ heap' = Collect(heap, idToTrace, ingest', tick)
         [] OTHER ->
                /\ ingest' = IF me.i < lenPolicies
                             THEN [ingest EXCEPT ![c].i = @ + 1, ![c].pc = "policy",
                                                 ![c].actualDecision = Nil]
                             ELSE returned
                /\ heap' = Collect(heap, idToTrace, ingest', tick)
                /\ consumed' = IF me.actualDecision = NotSampled
                               THEN OnLateArrivingSpans(consumed, me.i, NotSampled)
                               ELSE consumed
    /\ UNCHANGED << fixed, lifecycle, idToTrace, deleteChan, numTracesOnMap,
                    currentBatch, batches, currentSecond, spansInCurrentSecond,
                    started, now, tick, ningests, nticks >>

\* ------------------------------------------------------------ decision loop
\* The ticker fires and its goroutine calls samplingPolicyOnTick: the batch is
\* taken and currSecond read. The wall clock is seen to move when the ticker
\* fires: by a second, or (a tick that comes early) not at all.
OnTick ==
    LET taken == CloseCurrentAndTakeFirstBatch(batches, currentBatch) IN
    /\ started > 0
    /\ tick.pc = "idle"
    /\ nticks < MaxTicks
    /\ ningests + nticks < MaxOps
    /\ nticks' = nticks + 1
    /\ batches' = taken.batches
    /\ currentBatch' = << >>
    /\ \E elapsed \in 0..1 :
          /\ now + elapsed <= MaxSecond
          /\ now' = now + elapsed
    /\ tick' = [IdleTick EXCEPT !.pc = IF taken.batch = << >> THEN "pass2" ELSE "pass1",
                                !.batch = taken.batch, !.k = 1,
                                !.currSecond = now',
                                !.spansAtStart = IF currentSecond # now' THEN 0
                                                 ELSE spansInCurrentSecond]
    /\ UNCHANGED << fixed, lifecycle, idToTrace, heap, deleteChan, numTracesOnMap,
                    currentSecond, spansInCurrentSecond, started, ingest,
                    ningests, consumed >>

matchingPolicyLast(matchingPolicy, i, decision) ==
    IF decision = Sampled THEN i ELSE matchingPolicy

\* matchingPolicy after policy i returned decision (0 is nil)
matchingPolicyAfter(matchingPolicy, i, decision) ==
    IF decision = Sampled /\ matchingPolicy = 0 THEN i ELSE matchingPolicy

\* provisionalDecision after a policy returned decision (the switch)
provisionalDecisionAfter(provisionalDecision, decision) ==
    CASE decision = Sampled -> Sampled
      [] decision = NotSampled ->
            IF provisionalDecision = Unspecified THEN NotSampled
            ELSE provisionalDecision
      [] decision = SecondChance ->
            IF provisionalDecision # Sampled THEN SecondChance
            ELSE provisionalDecision
      [] OTHER -> provisionalDecision

\* the tick's locals when the first run moves on from batch[k]
NextInFirstPass(tk) ==
    [tk EXCEPT !.pc = IF tk.k < Len(tk.batch) THEN "pass1" ELSE "pass2",
               !.k = IF tk.k < Len(tk.batch) THEN tk.k + 1 ELSE 1,
               !.trace = 0, !.p = 0, !.result = Nil]

\* a first run that ends at the first id without a record
FirstPassLoadAborting ==
    LET id == tick.batch[tick.k]
        ref == idToTrace[id]
    IN
    /\ tick.pc = "pass1"
    /\ IF ref = 0
       THEN tick' = [tick EXCEPT !.idNotFoundOnMapCount = @ + 1,
                                 !.pc = "pass2", !.k = 1, !.trace = 0, !.p = 0]
       ELSE tick' = [tick EXCEPT !.pc = "evaluate", !.trace = ref, !.p = 1,
                                 !.totalSpans = @ + heap[ref].SpanCount,
                                 !.provisionalDecision = Unspecified,
                                 !.matchingPolicy = 0]
    /\ UNCHANGED << fixed, lifecycle, idToTrace, heap, deleteChan, numTracesOnMap,
                    currentBatch, batches, currentSecond, spansInCurrentSecond,
                    started, now, ingest, ningests, nticks, consumed >>

\* first run, "for _, id := range batch": tsp.idToTrace.Load(id) finds nothing,
\* or the record is taken and totalSpans += trace.SpanCount
FirstPassLoad ==
    LET id == tick.batch[tick.k]
        ref == idToTrace[id]
    IN
    /\ tick.pc = "pass1"
    /\ IF ref = 0
       THEN tick' = NextInFirstPass([tick EXCEPT !.idNotFoundOnMapCount = @ + 1,
                                                 !.firstRun = Append(@, id)])
       ELSE tick' = [tick EXCEPT !.pc = "evaluate", !.trace = ref, !.p = 1,
                                 !.totalSpans = @ + heap[ref].SpanCount,
                                 !.provisionalDecision = Unspecified,
                                 !.matchingPolicy = 0,
                                 !.firstRun = Append(@, id)]
    /\ UNCHANGED << fixed, lifecycle, idToTrace, heap, deleteChan, numTracesOnMap,
                    currentBatch, batches, currentSecond, spansInCurrentSecond,
                    started, now, ingest, ningests, nticks, consumed >>

\* a makeProvisionalDecision that marks the trace for any policy's Sampled
makeProvisionalDecisionMarkingAll ==
    LET i == tick.p IN
    /\ tick.pc = "evaluate"
    /\ i <= lenPolicies
    /\ \E result \in evaluators[i] :
          IF result = EvalError
          THEN /\ heap' = [heap EXCEPT ![tick.trace].Decisions[i] = NotSampled]
               /\ tick' = [tick EXCEPT !.evaluateErrorCount = @ + 1, !.p = i + 1,
                                        !.result = result]
          ELSE /\ heap' = [heap EXCEPT
                              ![tick.trace].Decisions[i] = result,
                              ![tick.trace].SelectedByProbabilisticFilter =
                                  IF result = Sampled
                                  THEN TRUE ELSE @]
               /\ tick' = [tick EXCEPT
                              !.provisionalDecision =
                                  provisionalDecisionAfter(@, result),
                              !.matchingPolicy = matchingPolicyAfter(@, i, result),
                              !.p = i + 1, !.result = result]
    /\ UNCHANGED << fixed, lifecycle, idToTrace, deleteChan, numTracesOnMap,
                    currentBatch, batches, currentSecond, spansInCurrentSecond,
                    started, now, ingest, ningests, nticks, consumed >>

\* a makeProvisionalDecision that returns at the first error of a policy
makeProvisionalDecisionStopping ==
    LET i == tick.p IN
    /\ tick.pc = "evaluate"
    /\ i <= lenPolicies
    /\ \E result \in evaluators[i] :
          IF result = EvalError
          THEN /\ heap' = [heap EXCEPT ![tick.trace].Decisions[i] = NotSampled]
               /\ tick' = [tick EXCEPT !.evaluateErrorCount = @ + 1,
                                        !.p = lenPolicies + 1,
                                        !.result = result]
          ELSE /\ heap' = [heap EXCEPT
                              ![tick.trace].Decisions[i] = result,
                              ![tick.trace].SelectedByProbabilisticFilter =
                                  IF result = Sampled /\ policies[i].probabilisticFilter
                                  THEN TRUE ELSE @]
               /\ tick' = [tick EXCEPT
                              !.provisionalDecision =
                                  provisionalDecisionAfter(@, result),
                              !.matchingPolicy = matchingPolicyAfter(@, i, result),
                              !.p = i + 1, !.result = result]
    /\ UNCHANGED << fixed, lifecycle, idToTrace, deleteChan, numTracesOnMap,
                    currentBatch, batches, currentSecond, spansInCurrentSecond,
                    started, now, ingest, ningests, nticks, consumed >>

\* makeProvisionalDecision, one iteration of "for i, policy := range
\* tsp.policies": Evaluate returns a decision or an error; trace.Decisions[i]
\* is written without the record's lock
makeProvisionalDecision ==
    LET i == tick.p IN
    /\ tick.pc = "evaluate"
    /\ i <= lenPolicies
    /\ \E result \in evaluators[i] :
          IF result = EvalError
          THEN /\ heap' = [heap EXCEPT ![tick.trace].Decisions[i] = NotSampled]
               /\ tick' = [tick EXCEPT !.evaluateErrorCount = @ + 1, !.p = i + 1,
                                        !.result = result]
          ELSE /\ heap' = [heap EXCEPT
                              ![tick.trace].Decisions[i] = result,
                              ![tick.trace].SelectedByProbabilisticFilter =
                                  IF result = Sampled /\ policies[i].probabilisticFilter
                                  THEN TRUE ELSE @]
               /\ tick' = [tick EXCEPT
                              !.provisionalDecision =
                                  provisionalDecisionAfter(@, result),
                              !.matchingPolicy = matchingPolicyAfter(@, i, result),
                              !.p = i + 1, !.result = result]
    /\ UNCHANGED << fixed, lifecycle, idToTrace, deleteChan, numTracesOnMap,
                    currentBatch, batches, currentSecond, spansInCurrentSecond,
                    started, now, ingest, ningests, nticks, consumed >>

\* a first run that counts the spans of the traces the probabilistic filter
\* selected whether the arbiter admits them or not
FirstPassDecideCountingRejected ==
    LET tr == heap[tick.trace]
        rate == updateRate(currentSecond, spansInCurrentSecond, tick.currSecond,
                           tr.SpanCount)
    IN
    /\ tick.pc = "evaluate"
    /\ tick.p > lenPolicies
    /\ IF tick.provisionalDecision = Sampled
       THEN /\ currentSecond' = rate.currentSecond
            /\ spansInCurrentSecond' = rate.spansInCurrentSecond
            /\ tick' = NextInFirstPass(
                          [tick EXCEPT !.selectedByProbabilisticFilterSpans =
                              IF tr.SelectedByProbabilisticFilter
                              THEN @ + tr.SpanCount ELSE @,
                                       !.offers = Append(@,
                                           [id |-> tick.batch[tick.k],
                                            was |-> Sampled,
                                            decision |-> rate.decision,
                                            selected |->
                                              tr.SelectedByProbabilisticFilter])])
            /\ heap' = Collect([heap EXCEPT ![tick.trace].FinalDecision = rate.decision],
                               idToTrace, ingest, tick')
            /\ consumed' = IF rate.decision = Sampled
                           THEN Admitted(consumed, tick.currSecond, tr.SpanCount)
                           ELSE consumed
       ELSE /\ tick' = NextInFirstPass(tick)
            /\ heap' = Collect([heap EXCEPT ![tick.trace].FinalDecision =
                                                tick.provisionalDecision],
                               idToTrace, ingest, tick')
            /\ UNCHANGED << currentSecond, spansInCurrentSecond, consumed >>
    /\ UNCHANGED << fixed, lifecycle, idToTrace, deleteChan, numTracesOnMap,
                    currentBatch, batches, started, now, ingest, ningests,
                    nticks >>

\* first run, after makeProvisionalDecision returned: trace.FinalDecision
FirstPassDecide ==
    LET tr == heap[tick.trace]
        rate == updateRate(currentSecond, spansInCurrentSecond, tick.currSecond,
                           tr.SpanCount)
    IN
    /\ tick.pc = "evaluate"
    /\ tick.p > lenPolicies
    /\ IF tick.provisionalDecision = Sampled
       THEN /\ currentSecond' = rate.currentSecond
            /\ spansInCurrentSecond' = rate.spansInCurrentSecond
            /\ tick' = NextInFirstPass(
                          [tick EXCEPT !.selectedByProbabilisticFilterSpans =
                              IF rate.decision = Sampled
                                 /\ tr.SelectedByProbabilisticFilter
                              THEN @ + tr.SpanCount ELSE @,
                                       !.offers = Append(@,
                                           [id |-> tick.batch[tick.k],
                                            was |-> Sampled,
                                            decision |-> rate.decision,
                                            selected |->
                                              tr.SelectedByProbabilisticFilter])])
            /\ heap' = Collect([heap EXCEPT ![tick.trace].FinalDecision = rate.decision],
                               idToTrace, ingest, tick')
            /\ consumed' = IF rate.decision = Sampled
                           THEN Admitted(consumed, tick.currSecond, tr.SpanCount)
                           ELSE consumed
       ELSE /\ tick' = NextInFirstPass(tick)
            /\ heap' = Collect([heap EXCEPT ![tick.trace].FinalDecision =
                                                tick.provisionalDecision],
                               idToTrace, ingest, tick')
            /\ UNCHANGED << currentSecond, spansInCurrentSecond, consumed >>
    /\ UNCHANGED << fixed, lifecycle, idToTrace, deleteChan, numTracesOnMap,
                    currentBatch, batches, started, now, ingest, ningests,
                    nticks >>

\* a second run that leaves the buffered span groups on the record
ReceivedBatchesKept(traceBatches) == traceBatches

\* trace.ReceivedBatches = nil, under the record's lock, once the second run
\* has taken the buffered span groups
ReceivedBatchesDetached(traceBatches) == << >>

\* updateProbabilisticRateTag(allSpans, probabilisticSpans, allSpans) on the
\* spans of trace id: the ratio they are tagged with
updateProbabilisticRateTag(id, probabilisticSpans, allSpans) ==
    [id |-> id, probabilisticSpans |-> probabilisticSpans, allSpans |-> allSpans]

\* a second run that walks the batch from its end
SecondRunIdReversed(batch, k) == batch[Len(batch) + 1 - k]

\* the id of the k-th iteration of the second "for _, id := range batch"
SecondRunId(batch, k) == batch[k]

\* second run, "for _, id := range batch", one id: the SecondChance decision,
\* the batches taken under the record's lock, the forward
SecondPass ==
    LET id == SecondRunId(tick.batch, tick.k)
        ref == idToTrace[id]
        tr == heap[ref]
        again == tr.FinalDecision = SecondChance
        rate == updateRate(currentSecond, spansInCurrentSecond, tick.currSecond,
                           tr.SpanCount)
        final == IF again THEN rate.decision ELSE tr.FinalDecision
        traceBatches == tr.ReceivedBatches
        allSpans == SumSeq(traceBatches)
    IN
    /\ tick.pc = "pass2"
    /\ tick.k <= Len(tick.batch)
    /\ IF ref = 0
       THEN /\ tick' = [tick EXCEPT !.k = @ + 1,
                                    !.forwarded = Append(@, FALSE),
                                    !.secondRun = Append(@, id)]
            /\ UNCHANGED << heap, currentSecond, spansInCurrentSecond, consumed >>
       ELSE /\ tick' = [tick EXCEPT !.k = @ + 1,
                                    !.forwarded = Append(@, final = Sampled),
                                    !.secondRun = Append(@, id),
                                    !.offers = IF again
                                               THEN Append(@,
                                                      [id |-> id,
                                                       was |-> SecondChance,
                                                       decision |-> rate.decision,
                                                       selected |->
                                                         tr.SelectedByProbabilisticFilter])
                                               ELSE @,
                                    !.tags = IF final = Sampled
                                                /\ tr.SelectedByProbabilisticFilter
                                             THEN Append(@,
                                                    updateProbabilisticRateTag(id,
                                                      tick.selectedByProbabilisticFilterSpans,
                                                      tick.totalSpans))
                                             ELSE @]
            /\ heap' = [heap EXCEPT
                           ![ref].FinalDecision = final,
                           ![ref].ReceivedBatches = ReceivedBatchesDetached(traceBatches),
                           ![ref].Emits = IF final = Sampled /\ allSpans > 0 /\ @ < 2
                                          THEN @ + 1 ELSE @]
            /\ currentSecond' = IF again THEN rate.currentSecond ELSE currentSecond
            /\ spansInCurrentSecond' =
                   IF again THEN rate.spansInCurrentSecond ELSE spansInCurrentSecond
            /\ consumed' =
                   LET c0 == IF again /\ final = Sampled
                             THEN Admitted(consumed, tick.currSecond, tr.SpanCount)
                             ELSE consumed
                   IN IF final = Sampled
                      THEN LoopForward(c0, id, tick.currSecond, allSpans)
                      ELSE c0
    /\ UNCHANGED << fixed, lifecycle, idToTrace, deleteChan, numTracesOnMap,
                    currentBatch, batches, started, now, ingest, ningests, nticks >>

\* the second run is over: the metrics are recorded and samplingPolicyOnTick
\* returns to the ticker goroutine
\* a decision loop that deletes the records of its batch before it returns
TickReturnDropping ==
    /\ tick.pc = "pass2"
    /\ tick.k > Len(tick.batch)
    /\ tick' = IdleTick
    /\ idToTrace' = [t \in TraceIds |->
                        IF \E j \in 1..Len(tick.batch) : tick.batch[j] = t
                        THEN 0 ELSE idToTrace[t]]
    /\ heap' = Collect(heap, idToTrace', ingest, tick')
    /\ UNCHANGED << fixed, lifecycle, deleteChan, numTracesOnMap,
                    currentBatch, batches, currentSecond, spansInCurrentSecond,
                    started, now, ingest, ningests, nticks, consumed >>

TickReturn ==
    /\ tick.pc = "pass2"
    /\ tick.k > Len(tick.batch)
    /\ tick' = IdleTick
    /\ UNCHANGED << fixed, lifecycle, idToTrace, heap, deleteChan, numTracesOnMap,
                    currentBatch, batches, currentSecond, spansInCurrentSecond,
                    started, now, ingest, ningests, nticks, consumed >>

\* newCascadingFilterSpanProcessor: the depth of the batcher, the
\* probabilistic filter, then "for i := range cfg.PolicyCfgs":
\* getPolicyEvaluator calls sampling.NewFilter; its error is returned in place
\* of the engine, else the policy is appended and the engine returned. The
\* configured policies share the properties configuration policyCfg.
newCascadingFilterSpanProcessor ==
    LET eval == NewFilter(policyCfg) IN
    /\ lifecycle = "new"
    /\ IF cfg.PolicyCfgs # << >> /\ eval.err # Nil
       THEN /\ lifecycle' = "failed"
            /\ UNCHANGED << evaluators, tsp >>
       ELSE /\ lifecycle' = "created"
            /\ tsp' = Engine(cfg)
            /\ evaluators' = RuleEvaluatorsOf(tsp'.policies)
    /\ UNCHANGED << maxNumTraces, policyCfg, sentIds, consumerFails, observeLate,
                    cfg, em, sentSpans, idToTrace,
                    heap, deleteChan, numTracesOnMap, currentBatch, batches,
                    currentSecond, spansInCurrentSecond, started, now, ingest,
                    tick, ningests, nticks, consumed >>

\* Shutdown(context.Context): return nil. The service calls it once, after
\* the receivers have stopped calling ConsumeTraces; it touches no field of
\* the engine, the ticker included.
Shutdown ==
    /\ lifecycle = "created"
    /\ \A c \in Callers : ingest[c].pc = "idle"
    /\ lifecycle' = "shutdown"
    /\ UNCHANGED << fixed, idToTrace, heap, deleteChan, numTracesOnMap,
                    currentBatch, batches, currentSecond, spansInCurrentSecond,
                    started, now, ingest, tick, ningests, nticks, consumed >>

\* ----------------------------------------------------------- specifications
IngestStep(c) ==
    \/ ConsumeTraces(c)
    \/ AddSpanCount(c)
    \/ SelectSend(c)
    \/ Receive(c)
    \/ dropTrace(c)
    \/ PolicyLoop(c)

TickStep ==
    \/ OnTick
    \/ FirstPassLoad
    \/ makeProvisionalDecision
    \/ FirstPassDecide
    \/ SecondPass
    \/ TickReturn

Next ==
    \/ \E c \in Callers : IngestStep(c)
    \/ TickStep

Init == Created /\ evaluators = RuleEvaluators

\* Any interleaving of the ingest callers with the ticker goroutine.
Spec == Init /\ [][Next]_vars

\* Calls and ticks one after the other: a step is taken only while every
\* other caller and the ticker goroutine are between operations.
SerialNext ==
    \/ \E c \in Callers :
          /\ tick.pc = "idle"
          /\ \A b \in Callers \ {c} : ingest[b].pc = "idle"
          /\ IngestStep(c)
    \/ /\ \A b \in Callers : ingest[b].pc = "idle"
       /\ TickStep

SerialInit == Created /\ evaluators = AnyEvaluators

SerialSpec == SerialInit /\ [][SerialNext]_vars

\* Calls and ticks one after the other, with producers that send one trace
\* id more, so that a FIFO of two ids overflows.
EvictionInit ==
    /\ Zeroed
    /\ maxNumTraces \in 1..MaxNumTraces
    /\ evaluators = RuleEvaluators
    /\ policyCfg = NoPropertiesCfg
    /\ lifecycle = "created"
    /\ sentIds = TraceIds
    /\ sentSpans = 1..MaxGroupSpans
    /\ consumerFails = FALSE
    /\ observeLate = FALSE
    /\ cfg = DefaultCfg
    /\ tsp = Engine(cfg)
    /\ em = newEventMachine

EvictionSpec == EvictionInit /\ [][SerialNext]_vars

\* Calls and ticks one after the other, with a downstream consumer that
\* answers every call with an error.
FaultInit ==
    /\ Zeroed
    /\ maxNumTraces \in 1..MaxNumTraces
    /\ evaluators = RuleEvaluators
    /\ policyCfg = NoPropertiesCfg
    /\ lifecycle = "created"
    /\ sentIds = 1..NumTraceIds
    /\ sentSpans = 1..MaxGroupSpans
    /\ consumerFails = TRUE
    /\ observeLate = FALSE
    /\ cfg = DefaultCfg
    /\ tsp = Engine(cfg)
    /\ em = newEventMachine

FaultSpec == FaultInit /\ [][SerialNext]_vars

\* Calls and ticks one after the other, and a shutdown of the service.
ShutdownNext ==
    \/ SerialNext
    \/ Shutdown

ShutdownSpec == Init /\ [][ShutdownNext]_vars

\* Calls and ticks one after the other, with evaluators that keep what they
\* are given in OnLateArrivingSpans.
LateInit ==
    /\ Zeroed
    /\ maxNumTraces \in 1..MaxNumTraces
    /\ evaluators = AnyEvaluators
    /\ policyCfg = NoPropertiesCfg
    /\ lifecycle = "created"
    /\ sentIds = 1..NumTraceIds
    /\ sentSpans = 1..MaxGroupSpans
    /\ consumerFails = FALSE
    /\ observeLate = TRUE
    /\ cfg = DefaultCfg
    /\ tsp = Engine(cfg)
    /\ em = newEventMachine

LateSpec == LateInit /\ [][SerialNext]_vars

\* Calls and ticks one after the other, with producers that also send span
\* groups larger than a second's whole budget.
BurstInit ==
    /\ Zeroed
    /\ maxNumTraces \in 1..MaxNumTraces
    /\ evaluators = AnyEvaluators
    /\ policyCfg = NoPropertiesCfg
    /\ lifecycle = "created"
    /\ sentIds = 1..NumTraceIds
    /\ sentSpans = {1, SpansPerSecond + 1}
    /\ consumerFails = FALSE
    /\ observeLate = FALSE
    /\ cfg = DefaultCfg
    /\ tsp = Engine(cfg)
    /\ em = newEventMachine

BurstSpec == BurstInit /\ [][SerialNext]_vars

\* the ids that wait in the batcher, in the slot being filled or a closed one
InBatcher ==
    Range(currentBatch) \cup UNION {Range(batches[j]) : j \in 1..Len(batches)}

\* The ticker as it goes on once the calls are over: it fires every second
\* for as long as the process runs. Ticks past MaxTicks are not counted any
\* more.
OnTickForever ==
    LET taken == CloseCurrentAndTakeFirstBatch(batches, currentBatch) IN
    /\ started > 0
    /\ tick.pc = "idle"
    /\ nticks' = IF nticks < MaxTicks THEN nticks + 1 ELSE nticks
    /\ batches' = taken.batches
    /\ currentBatch' = << >>
    /\ \E elapsed \in 0..1 :
          /\ now + elapsed <= MaxSecond
          /\ now' = now + elapsed
    /\ tick' = [IdleTick EXCEPT !.pc = IF taken.batch = << >> THEN "pass2" ELSE "pass1",
                                !.batch = taken.batch, !.k = 1,
                                !.currSecond = now',
                                !.spansAtStart = IF currentSecond # now' THEN 0
                                                 ELSE spansInCurrentSecond]
    /\ UNCHANGED << fixed, lifecycle, idToTrace, heap, deleteChan, numTracesOnMap,
                    currentSecond, spansInCurrentSecond, started, ingest,
                    ningests, consumed >>

\* the steps of the calls, one call at a time and between ticks
SerialIngest ==
    \E c \in Callers :
        /\ tick.pc = "idle"
        /\ \A b \in Callers \ {c} : ingest[b].pc = "idle"
        /\ IngestStep(c)

\* the steps of the ticker goroutine, between calls
SerialTickForever ==
    /\ \A b \in Callers : ingest[b].pc = "idle"
    /\ \/ OnTickForever
       \/ FirstPassLoad
       \/ makeProvisionalDecision
       \/ FirstPassDecide
       \/ SecondPass
       \/ TickReturn

TickingNext ==
    \/ SerialIngest
    \/ SerialTickForever

\* Calls and ticks one after the other, with a ticker that keeps firing and
\* calls that go on to their return.
TickingSpec ==
    /\ SerialInit
    /\ [][TickingNext]_vars
    /\ WF_vars(SerialIngest)
    /\ WF_vars(SerialTickForever)

\* The ingest callers alone, in any interleaving, each scheduled again and
\* again, for every capacity make(chan traceKey, cfg.NumTraces) accepts.
IngestInit ==
    /\ Zeroed
    /\ maxNumTraces \in 0..MaxNumTraces
    /\ evaluators = RuleEvaluators
    /\ policyCfg = NoPropertiesCfg
    /\ lifecycle = "created"
    /\ sentIds = TraceIds
    /\ sentSpans = 1..MaxGroupSpans
    /\ consumerFails = FALSE
    /\ observeLate = FALSE
    /\ cfg = DefaultCfg
    /\ tsp = Engine(cfg)
    /\ em = newEventMachine

IngestNext == \E c \in Callers : IngestStep(c)

IngestSpec ==
    /\ IngestInit
    /\ [][IngestNext]_vars
    /\ \A c \in Callers : WF_vars(IngestStep(c))

\* The construction of the engine, for every properties configuration of the
\* policy: no policy is built yet.
ConstructInit ==
    /\ Zeroed
    /\ maxNumTraces \in 1..MaxNumTraces
    /\ evaluators = << >>
    /\ policyCfg \in PolicyCfgs
    /\ lifecycle = "new"
    /\ sentIds = 1..NumTraceIds
    /\ sentSpans = 1..MaxGroupSpans
    /\ consumerFails = FALSE
    /\ observeLate = FALSE
    /\ cfg = DefaultCfg
    /\ tsp = NoEngine
    /\ em = newEventMachine

ConstructNext == newCascadingFilterSpanProcessor

ConstructSpec == ConstructInit /\ [][ConstructNext]_vars

\* The construction of the engine for every decision wait, every ratio of
\* the probabilistic filter and every list of configured policies, with
\* properties that NewFilter accepts or refuses.
ConfigInit ==
    /\ Zeroed
    /\ maxNumTraces \in 1..MaxNumTraces
    /\ evaluators = << >>
    /\ policyCfg \in {NoPropertiesCfg,
                      [NoPropertiesCfg EXCEPT !.MinNumberOfSpans = << 0 >>]}
    /\ lifecycle = "new"
    /\ sentIds = 1..NumTraceIds
    /\ sentSpans = 1..MaxGroupSpans
    /\ consumerFails = FALSE
    /\ observeLate = FALSE
    /\ cfg \in [ DecisionWait : DecisionWaits,
                 ProbabilisticFilteringRatio : Ratios,
                 PolicyCfgs : PolicyCfgLists ]
    /\ tsp = NoEngine
    /\ em = newEventMachine

ConfigSpec == ConfigInit /\ [][ConstructNext]_vars

\* what no step of the event machine changes
engine == << maxNumTraces, evaluators, idToTrace, heap, deleteChan,
             numTracesOnMap, currentBatch, batches, currentSecond,
             spansInCurrentSecond, started, now, ingest, tick, ningests, nticks,
             consumed, policyCfg, lifecycle, sentIds, consumerFails, observeLate,
             cfg, tsp, sentSpans >>

\* The owner of the machine sets callbacks and calls startInBackground:
\* go em.start(). Every callback is set, or all but onTokenRemoved.
startInBackground ==
    /\ em.loop = "new"
    /\ \E set \in {EventTypes, EventTypes \ {"tokenRemoved"}} :
          em' = [em EXCEPT !.callbacks = set, !.loop = "select"]
    /\ UNCHANGED engine

\* fire(e): under the read lock, nothing once closed; em.events <- e blocks
\* while the channel is full
fire ==
    /\ em.loop # "new"
    /\ em.fired < MaxEvents
    /\ \E typ \in EventTypes :
          IF em.closed
          THEN em' = [em EXCEPT !.fired = @ + 1]
          ELSE /\ Len(em.events) < bufferSize
               /\ em' = [em EXCEPT !.fired = @ + 1, !.events = Append(@, typ)]
    /\ UNCHANGED engine

\* start, case e := <-em.events: handleEvent(e). A callback that is not set
\* goes to callOnError; else handleEventWithObservability calls
\* doWithTimeout(time.Second, do), which starts do() in a goroutine of its
\* own and waits in its select.
handleEvent ==
    /\ em.loop = "select"
    /\ em.events # << >>
    /\ LET typ == Head(em.events)
           n == em.dequeued + 1
       IN IF typ \notin em.callbacks
          THEN em' = [em EXCEPT !.events = Tail(@), !.dequeued = n,
                                !.errors = @ + 1]
          ELSE em' = [em EXCEPT !.events = Tail(@), !.dequeued = n,
                                !.loop = "doWithTimeout", !.current = n,
                                !.done = FALSE,
                                !.executing = @ \cup {[n |-> n, typ |-> typ]}]
    /\ UNCHANGED engine

\* the goroutine of doWithTimeout: done <- do(), the callback returns and
\* its result goes to the buffered channel done
do ==
    /\ \E cb \in em.executing :
          em' = [em EXCEPT !.executing = @ \ {cb},
                           !.done = IF em.loop = "doWithTimeout" /\ cb.n = em.current
                                    THEN TRUE ELSE @]
    /\ UNCHANGED engine

\* doWithTimeout, case err := <-done: return true, err; handleEvent returns
\* to the loop of start
doWithTimeoutDone ==
    /\ em.loop = "doWithTimeout"
    /\ em.done
    /\ em' = [em EXCEPT !.loop = "select", !.current = 0, !.done = FALSE]
    /\ UNCHANGED engine

\* doWithTimeout, case <-time.After(timeout): return false, nil; the
\* goroutine that runs do() is left to itself
doWithTimeoutExpired ==
    /\ em.loop = "doWithTimeout"
    /\ em' = [em EXCEPT !.loop = "select", !.current = 0, !.done = FALSE]
    /\ UNCHANGED engine

\* shutdown: em.closed = true under the lock
shutdown ==
    /\ em.loop # "new"
    /\ ~em.closed
    /\ em' = [em EXCEPT !.closed = TRUE]
    /\ UNCHANGED engine

\* shutdown: close(em.close), once the channel is empty or shutdownTimeout
\* is over
shutdownClose ==
    /\ em.closed
    /\ ~em.close
    /\ em' = [em EXCEPT !.close = TRUE]
    /\ UNCHANGED engine

\* start, case <-em.close: return
startReturn ==
    /\ em.loop = "select"
    /\ em.close
    /\ em' = [em EXCEPT !.loop = "returned"]
    /\ UNCHANGED engine

EventNext ==
    \/ startInBackground
    \/ fire
    \/ handleEvent
    \/ do
    \/ doWithTimeoutDone
    \/ doWithTimeoutExpired
    \/ shutdown
    \/ shutdownClose
    \/ startReturn

\* The event machine alone: producers that fire events, the goroutine of
\* start, the goroutines of the callbacks and a shutdown.
EventSpec == Init /\ [][EventNext]_vars

\* the record's lock is held by a call between its read of Decisions[i] and
\* the end of the iteration
LockedByCall(ref) ==
    \E c \in Callers : ingest[c].pc = "locked" /\ ingest[c].actualData = ref

\* Calls one after the other, each interleaved in any way with the decision
\* loop, with the read of Decisions[i] and the append of the span group as the
\* two steps they are; the second run takes the record's lock.
RaceNext ==
    \/ \E c \in Callers :
          /\ \A b \in Callers \ {c} : ingest[b].pc = "idle"
          /\ \/ ConsumeTraces(c)
             \/ AddSpanCount(c)
             \/ SelectSend(c)
             \/ Receive(c)
             \/ dropTrace(c)
             \/ ReadActualDecision(c)
             \/ AfterActualDecision(c)
    \/ OnTick
    \/ FirstPassLoad
    \/ makeProvisionalDecision
    \/ FirstPassDecide
    \/ /\ tick.pc = "pass2"
       /\ tick.k <= Len(tick.batch)
       /\ ~LockedByCall(idToTrace[tick.batch[tick.k]])
       /\ SecondPass
    \/ TickReturn

RaceSpec == Init /\ [][RaceNext]_vars

\* ------------------------------------------------------------------ properties

\* the record the store holds for a live trace id
Rec(t) == heap[idToTrace[t]]

\* some policy's recorded decision for the record is d
Voted(r, d) == \E i \in 1..lenPolicies : r.Decisions[i] = d

\* the lowest policy position whose recorded decision is Sampled (0: none)
FirstSampled(decisions) ==
    IF \E i \in 1..lenPolicies : decisions[i] = Sampled
    THEN Min({i \in 1..lenPolicies : decisions[i] = Sampled})
    ELSE 0

\* the decision loop is past its last batch position and about to return
TickOver == tick.pc = "pass2" /\ tick.k > Len(tick.batch)

\* the trace ids the running tick has still to reach in its second run
Awaiting ==
    CASE tick.pc \in {"pass1", "evaluate"} -> Range(tick.batch)
      [] tick.pc = "pass2" -> {tick.batch[j] : j \in tick.k..Len(tick.batch)}
      [] OTHER -> {}

\* callers that stored a new record and have not yet queued its id
Storing == {c \in Callers : ingest[c].pc \in {"select", "receive", "dropTrace"}}

\* callers that took an id off the eviction FIFO and have not yet dropped it
Dropping == {c \in Callers : ingest[c].pc = "dropTrace"}

\* C1 (as stated): in every reachable state, mid-ingest states and concurrent
\* callers included, the store holds at most num_traces records.
C1_StoreWithinCeiling == Cardinality(Live) <= maxNumTraces

\* C1 (amended): the eviction FIFO never holds more than num_traces ids, and
\* the store holds exactly one record per queued id, one per call that stored
\* a new record and has not yet queued it, and one per call that took an id
\* off the FIFO and has not yet dropped it; so the store is within num_traces
\* whenever no ingest call is between its store and its push.
C1_StoreBound ==
    /\ Len(deleteChan) <= maxNumTraces
    /\ Cardinality(Live) = Len(deleteChan) + Cardinality(Storing) + Cardinality(Dropping)
    /\ Storing = {} => Cardinality(Live) <= maxNumTraces

\* a call has stored its new record while the FIFO is full: the store is
\* above the ceiling
C1_Witness ==
    \E c \in Callers :
        /\ ingest[c].pc = "dropTrace"
        /\ Len(deleteChan) = maxNumTraces - 1
        /\ Cardinality(Live) = maxNumTraces + 1

\* C2: for every second s, the span_count of the traces the decision loop gave
\* the final decision Sampled in ticks that read s, summed, is at most
\* spans_per_second; the spans the loop forwarded in those ticks are no more
\* than that sum.
C2_LoopWithinBudget ==
    \A s \in Seconds :
        /\ consumed.admitted[s] <= SpansPerSecond
        /\ consumed.loop[s] <= consumed.admitted[s]

\* the loop has used up a second's budget and turned away a trace that a
\* policy had voted Sampled
C2_Witness ==
    \E s \in Seconds :
        /\ consumed.admitted[s] = SpansPerSecond
        /\ consumed.loop[s] = SpansPerSecond
        /\ currentSecond = s
        /\ \E t \in Live : /\ Voted(Rec(t), Sampled)
                           /\ Rec(t).FinalDecision = NotSampled

\* C3 (as stated): the spans forwarded downstream within any one second, by
\* the decision loop and by late-arriving ingests together, are at most
\* spans_per_second.
C3_AllWithinBudget == \A s \in Seconds : consumed.all[s] <= SpansPerSecond

\* C3 (amended): the spans forwarded downstream within any one second exceed
\* spans_per_second by no more than the spans of that second's late-arriving
\* span groups, which are forwarded without asking the rate arbiter.
C3_BudgetExceptLate ==
    \A s \in Seconds :
        /\ consumed.all[s] <= SpansPerSecond + consumed.late[s]
        /\ consumed.all[s] = consumed.loop[s] + consumed.late[s]

\* the loop used a second's whole budget and a late span group was forwarded
\* in the same second
C3_Witness ==
    \E s \in Seconds :
        /\ consumed.loop[s] = SpansPerSecond
        /\ consumed.late[s] > 0

\* C4 (as stated): for every trace id, whatever the ingests (eviction and
\* re-creation included) and ticks, the decision loop forwards a trace for
\* that id at most once.
C4_OncePerId == \A t \in TraceIds : consumed.loopById[t] <= 1

\* C4 (amended): the decision loop hands the buffered spans of a trace record
\* downstream at most once; it may forward for the same id again, with the
\* spans of a new record once the id was evicted and stored again, or with no
\* spans when the id is in its batches more than once.
C4_OncePerRecord ==
    \A r \in Refs : heap[r] # NoRec => heap[r].Emits <= 1

\* the loop forwarded twice for an id whose present record was handed over once
C4_Witness ==
    \E t \in Live :
        /\ consumed.loopById[t] = 2
        /\ Rec(t).Emits = 1

\* C5: every ingest of a span group for a trace whose record is in the store
\* with the final decision Sampled, by the first run or promoted from
\* SecondChance by the second, forwards that span group exactly once.
C5_LateForwardedOnce ==
    [][\A c \in Callers :
          ( /\ ingest[c].pc = "policy"
            /\ ingest'[c].pc = "idle"
            /\ idToTrace[ingest[c].id] = ingest[c].actualData
            /\ heap[ingest[c].actualData].FinalDecision = Sampled )
          => consumed'.late[now] = consumed.late[now] + ingest[c].lenSpans]_vars

\* C6 (as stated): in every reachable state, a record whose final decision
\* the decision loop has set has no buffered span groups.
C6_EmptyOnceDecided ==
    \A t \in Live :
        Rec(t).FinalDecision # Unspecified => Rec(t).ReceivedBatches = << >>

\* C6 (amended): a record whose final decision the decision loop has set has
\* no buffered span groups once the second run of that tick has reached it,
\* so whenever no tick is in progress; between the first run's decision and
\* the second run's visit the record still holds them.
C6_EmptyAfterSecondRun ==
    \A t \in Live :
        (Rec(t).FinalDecision # Unspecified /\ t \notin Awaiting)
        => Rec(t).ReceivedBatches = << >>

\* no tick is in progress, and a record that the loop decided and forwarded
\* with its spans holds no span groups
C6_Witness ==
    /\ tick.pc = "idle"
    /\ \E t \in Live : /\ Rec(t).FinalDecision = Sampled
                       /\ Rec(t).Emits = 1
                       /\ Rec(t).ReceivedBatches = << >>

\* C7 (as stated): once the decision loop has set a record's final decision
\* and finished its emission, the record is out of the store; after a tick
\* that decided every live trace the store is empty.
C7_RemovedOnceDecided ==
    \A t \in Live :
        Rec(t).FinalDecision \in {Sampled, NotSampled} => t \in Awaiting

\* C7 (amended): no step of the decision loop removes a record from the
\* store: a decided record stays, with its final decision, until the eviction
\* FIFO of an ingest call drops it.
C7_LoopKeepsRecords == [][TickStep => idToTrace' = idToTrace]_vars

\* the decision loop is about to return and the records it decided in this
\* tick are all in the store
C7_Witness ==
    /\ TickOver
    /\ tick.batch # << >>
    /\ \A t \in Range(tick.batch) :
           t \in Live /\ Rec(t).FinalDecision \in {Sampled, NotSampled}

\* Offering span counts to a per-second budget one after the other: offered[j]
\* says whether position j is offered at all, used is what the budget has
\* taken before; the result says for each position whether it was taken.
RECURSIVE Taken(_, _, _)
Taken(counts, offered, used) ==
    IF counts = << >> THEN << >>
    ELSE LET fits == Head(offered) /\ Head(counts) + used <= SpansPerSecond
         IN << fits >> \o Taken(Tail(counts), Tail(offered),
                                IF fits THEN used + Head(counts) ELSE used)

\* what the positions taken use of the budget
RECURSIVE UsedBy(_, _)
UsedBy(counts, taken) ==
    IF counts = << >> THEN 0
    ELSE (IF Head(taken) THEN Head(counts) ELSE 0) + UsedBy(Tail(counts), Tail(taken))

\* the decision loop is about to return from a tick over a non-empty batch
\* whose ids all have a record in the store
BatchDecided ==
    /\ TickOver
    /\ tick.batch # << >>
    /\ \A j \in 1..Len(tick.batch) : tick.batch[j] \in Live

BatchCounts == [j \in 1..Len(tick.batch) |-> Rec(tick.batch[j]).SpanCount]

\* C8: after a tick over a batch of traces that a policy voted Sampled, trace
\* i has the final decision Sampled and was forwarded exactly when its
\* span_count plus the span_counts of the earlier traces admitted (plus what
\* the second had used before the tick, nothing for an empty counter) is at
\* most spans_per_second; otherwise it is NotSampled and was not forwarded.
C8_FirstRunPrefixAdmission ==
    (BatchDecided /\ \A j \in 1..Len(tick.batch) : Voted(Rec(tick.batch[j]), Sampled))
    => LET taken == Taken(BatchCounts, [j \in 1..Len(tick.batch) |-> TRUE],
                          tick.spansAtStart)
       IN \A j \in 1..Len(tick.batch) :
              /\ tick.forwarded[j] = taken[j]
              /\ Rec(tick.batch[j]).FinalDecision =
                     IF taken[j] THEN Sampled ELSE NotSampled

\* a tick that started with an empty counter admitted the first trace of its
\* batch and turned the second away
C8_Witness ==
    /\ BatchDecided
    /\ tick.spansAtStart = 0
    /\ Len(tick.batch) = 2
    /\ \A j \in 1..2 : Voted(Rec(tick.batch[j]), Sampled)
    /\ tick.forwarded = << TRUE, FALSE >>

\* the provisional decision of a record, from the decisions recorded for it
Provisional(r) ==
    IF Voted(r, Sampled) THEN Sampled
    ELSE IF Voted(r, SecondChance) THEN SecondChance
    ELSE NotSampled

\* C9: after a tick, the traces whose provisional decision was SecondChance
\* were offered to the arbiter in batch order, after the first run's
\* admissions: such a trace is Sampled and was forwarded exactly when its
\* span_count fits in what the second's budget has left, else NotSampled and
\* not forwarded.
C9_SecondRunAdmission ==
    BatchDecided
    => LET n == Len(tick.batch)
           first == [j \in 1..n |-> Provisional(Rec(tick.batch[j])) = Sampled]
           second == [j \in 1..n |-> Provisional(Rec(tick.batch[j])) = SecondChance]
           taken1 == Taken(BatchCounts, first, tick.spansAtStart)
           taken2 == Taken(BatchCounts, second,
                           tick.spansAtStart + UsedBy(BatchCounts, taken1))
       IN \A j \in 1..n :
              second[j] => /\ tick.forwarded[j] = taken2[j]
                           /\ Rec(tick.batch[j]).FinalDecision =
                                  IF taken2[j] THEN Sampled ELSE NotSampled

\* the second run promoted the first SecondChance trace of its batch and
\* turned the second away
C9_Witness ==
    /\ BatchDecided
    /\ Len(tick.batch) = 2
    /\ \A j \in 1..2 : Provisional(Rec(tick.batch[j])) = SecondChance
    /\ tick.forwarded = << TRUE, FALSE >>

\* C10: when makeProvisionalDecision has asked every policy, the matching
\* policy it reports is the lowest-positioned policy that returned Sampled
\* (none when no policy did); and a late span group is forwarded under the
\* first policy whose recorded decision for the trace is Sampled.
C10_FirstMatchingPolicy ==
    /\ []( (tick.pc = "evaluate" /\ tick.p > lenPolicies)
           => tick.matchingPolicy = FirstSampled(heap[tick.trace].Decisions) )
    /\ [][\A c \in Callers :
             (ingest[c].pc = "policy" /\ consumed'.late # consumed.late)
             => consumed'.latePolicy =
                    FirstSampled(heap[ingest[c].actualData].Decisions)]_vars

\* every policy returned Sampled for a trace, and a late span group of it was
\* forwarded under the first policy
C10_Witness ==
    /\ consumed.latePolicy = 1
    /\ \E t \in Live : \A i \in 1..lenPolicies : Rec(t).Decisions[i] = Sampled

C12_ErrorIsNotSampled ==
    /\ [][(tick.pc = "evaluate" /\ tick'.pc = "evaluate" /\ tick'.p # tick.p
           /\ tick'.result = EvalError)
          => /\ heap'[tick.trace].Decisions[tick.p] = NotSampled
             /\ tick'.evaluateErrorCount = tick.evaluateErrorCount + 1
             /\ tick'.p = tick.p + 1]_vars
    /\ []( (tick.pc = "evaluate" /\ tick.p > lenPolicies)
           => \A i \in 1..lenPolicies : heap[tick.trace].Decisions[i] # Pending )

\* the first policy failed for the first trace of the batch, and the second
\* policy was evaluated and returned Sampled
C12_Witness ==
    /\ tick.pc = "evaluate"
    /\ tick.p > lenPolicies
    /\ tick.k = 1
    /\ tick.evaluateErrorCount = 1
    /\ heap[tick.trace].Decisions = << NotSampled, Sampled >>

\* C13: a tick counts every id of its batch that has no record in the store
\* once as dropped too early and forwards nothing for it, and it still takes
\* every other id of the batch through both runs: at the end of the tick
\* each of them has a decision from every policy and no buffered span groups.
C13_MissingRecordTolerated ==
    TickOver
    => LET n == Len(tick.batch)
           missing == {j \in 1..n : tick.batch[j] \notin Live}
       IN /\ tick.idNotFoundOnMapCount = Cardinality(missing)
          /\ Len(tick.forwarded) = n
          /\ \A j \in missing : ~tick.forwarded[j]
          /\ \A j \in (1..n) \ missing :
                /\ \A i \in 1..lenPolicies :
                       Rec(tick.batch[j]).Decisions[i] # Pending
                /\ Rec(tick.batch[j]).ReceivedBatches = << >>

\* the first id of the batch was evicted before the tick; the tick counted
\* it and went on to decide and forward the second
C13_Witness ==
    /\ TickOver
    /\ Len(tick.batch) = 2
    /\ tick.batch[1] \notin Live
    /\ tick.idNotFoundOnMapCount = 1
    /\ tick.forwarded = << FALSE, TRUE >>

\* C14: when the downstream consumer answers a forward with an error, the
\* forward was attempted once and is not attempted again, no decision entry
\* changes, the batcher gets no id back, the final decision stays what it
\* was; the decision loop drops the span groups it forwarded and goes on to
\* the next id, the ingest call keeps nothing and returns without an error.
C14_ConsumerErrorIgnored ==
    [][(consumed'.failed # consumed.failed)
       => /\ consumed'.failed = consumed.failed + 1
          /\ currentBatch' = currentBatch
          /\ batches' = batches
          /\ \A r \in Refs :
                (heap[r] # NoRec /\ heap'[r] # NoRec)
                => heap'[r].Decisions = heap[r].Decisions
          /\ tick.pc = "pass2"
             => LET ref == idToTrace[tick.batch[tick.k]]
                IN /\ heap'[ref].FinalDecision = Sampled
                   /\ heap'[ref].ReceivedBatches = << >>
                   /\ tick'.pc = "pass2" /\ tick'.k = tick.k + 1
          /\ \A c \in Callers :
                ingest[c].pc = "policy"
                => /\ ingest'[c].pc = "idle" /\ ingest'[c].err = Nil
                   /\ \A r \in Refs :
                         (heap[r] # NoRec /\ heap'[r] # NoRec)
                         => /\ heap'[r].FinalDecision = heap[r].FinalDecision
                            /\ heap'[r].ReceivedBatches = heap[r].ReceivedBatches]_vars

\* the consumer failed a forward of the decision loop and a late forward,
\* and every call has returned
C14_Witness ==
    /\ consumerFails
    /\ consumed.failed = 2
    /\ consumed.latePolicy = 1
    /\ \E t \in Live : Rec(t).Emits = 1 /\ Rec(t).FinalDecision = Sampled
    /\ \A c \in Callers : ingest[c].pc = "idle"

\* the spans of the calls that have loaded record ref and not yet added
\* their span group to its count, over callers 1..c
RECURSIVE SpansToAdd(_, _)
SpansToAdd(ref, c) ==
    IF c = 0 THEN 0
    ELSE SpansToAdd(ref, c - 1)
         + (IF ingest[c].pc = "AddSpanCount" /\ ingest[c].actualData = ref
            THEN ingest[c].lenSpans ELSE 0)

\* C15: for every live record, span_count is the number of spans that the
\* ingest calls for its trace id have brought since the record was created,
\* however many calls there were and however they interleaved: every call's
\* spans are counted once, as soon as the call has added them.
C15_SpanCountIsTotal ==
    \A t \in Live :
        Rec(t).SpanCount + SpansToAdd(idToTrace[t], NumCallers) = Rec(t).Delivered

\* a record that three ingest calls brought spans for, all counted
C15_Witness ==
    \E t \in Live :
        /\ Rec(t).Delivered = 3 * MaxGroupSpans
        /\ Rec(t).SpanCount = 3 * MaxGroupSpans
        /\ \A c \in Callers : ingest[c].pc = "idle"

\* C16: under any interleaving of ingest callers with the decision loop, a
\* span group is appended to a record's received_batches only while every
\* per-policy decision of the record is Pending; in particular the decision
\* the call read is still Pending when the call appends.
C16_NoAppendAfterDecision ==
    [][\A r \in Refs :
          (/\ heap[r] # NoRec
           /\ heap'[r] # NoRec
           /\ Len(heap'[r].ReceivedBatches) > Len(heap[r].ReceivedBatches))
          => \A i \in 1..lenPolicies : heap[r].Decisions[i] = Pending]_vars

\* C17: after Shutdown has returned the periodic ticker is stopped: no
\* decision tick fires any more.
C17_NoTickAfterShutdown ==
    [][lifecycle = "shutdown" => nticks' = nticks]_vars

\* C18: every ingest call eventually returns, for every configured
\* num_traces and every number of concurrent callers.
C18_IngestReturns ==
    \A c \in Callers : (ingest[c].pc # "idle") ~> (ingest[c].pc = "idle")

\* C19: constructing the policy evaluator fails, and no engine is created,
\* exactly when the properties configuration sets min_duration_micros below
\* 0, or min_number_of_spans below 1, or a name_pattern that is not a valid
\* regular expression; when none of the three is set, or all that are set
\* are valid, the engine is created with its policy.
C19_FailsIffInvalidProperties ==
    LET p == policyCfg
        invalid ==
            \/ p.MinDurationMicros # << >> /\ p.MinDurationMicros[1] < 0
            \/ p.MinNumberOfSpans # << >> /\ p.MinNumberOfSpans[1] < 1
            \/ p.NamePattern # << >> /\ regexpCompileErr(p.NamePattern[1])
    IN lifecycle # "new" =>
          /\ invalid => lifecycle = "failed" /\ evaluators = << >>
          /\ ~invalid => lifecycle = "created" /\ evaluators # << >>

\* a construction that failed over min_number_of_spans = 0 alone
C19_Witness ==
    /\ lifecycle = "failed"
    /\ policyCfg.MinNumberOfSpans = << 0 >>
    /\ policyCfg.MinDurationMicros = << 0 >>
    /\ policyCfg.NamePattern = << << "a", "*" >> >>

\* the first run is about to set the final decision of a provisionally
\* Sampled trace whose span_count does not fit what is left of the budget of
\* the tick's second
RateExceeded ==
    /\ tick.pc = "evaluate"
    /\ tick.p > lenPolicies
    /\ tick.provisionalDecision = Sampled
    /\ (IF currentSecond # tick.currSecond THEN 0 ELSE spansInCurrentSecond)
          + heap[tick.trace].SpanCount > SpansPerSecond

\* the second run is about to handle a trace that a policy voted Sampled and
\* the first run rejected
RejectedInSecondRun ==
    /\ tick.pc = "pass2"
    /\ tick.k <= Len(tick.batch)
    /\ idToTrace[tick.batch[tick.k]] # 0
    /\ Voted(Rec(tick.batch[tick.k]), Sampled)
    /\ Rec(tick.batch[tick.k]).FinalDecision = NotSampled

\* C20 as stated: in the first pass a provisionally Sampled trace that does
\* not fit the arbiter's remaining budget gets the final decision
\* SecondChance.
C20_DemotedToSecondChance ==
    [][RateExceeded /\ tick' # tick
          => heap'[tick.trace].FinalDecision = SecondChance]_vars

\* C20, amended: in the first pass a provisionally Sampled trace that does
\* not fit the arbiter's remaining budget gets the final decision NotSampled
\* and uses none of the budget; the second pass does not offer it to the
\* arbiter again: its decision stays NotSampled, the arbiter is left as it
\* was and nothing of the trace is forwarded.
C20_RejectedNotSampled ==
    [][/\ RateExceeded /\ tick' # tick
          => /\ heap'[tick.trace].FinalDecision = NotSampled
             /\ spansInCurrentSecond' =
                   (IF currentSecond # tick.currSecond THEN 0
                    ELSE spansInCurrentSecond)
       /\ RejectedInSecondRun /\ tick' # tick
          => /\ heap'[idToTrace[tick.batch[tick.k]]].FinalDecision = NotSampled
             /\ UNCHANGED << currentSecond, spansInCurrentSecond, consumed >>
             /\ tick'.forwarded = Append(tick.forwarded, FALSE)]_vars

\* a tick is over that rejected a trace a policy had voted Sampled
C20_Witness ==
    /\ tick.pc = "idle"
    /\ nticks > 0
    /\ \E t \in Live :
          /\ Voted(Rec(t), Sampled)
          /\ Rec(t).FinalDecision = NotSampled

\* C21: within a tick, when a trace with final decision SecondChance is
\* offered to the rate arbiter, every trace of the batch whose provisional
\* decision is Sampled has been offered to it before; and the second pass
\* visits the ids of the batch in the order of the first pass.
C21_WinnersFirstSameOrder ==
    /\ \A b \in 1..Len(tick.offers) :
          tick.offers[b].was = SecondChance
          => \A t \in Range(tick.batch) \cap Live :
                Provisional(Rec(t)) = Sampled
                => \E a \in 1..(b - 1) :
                      tick.offers[a].id = t /\ tick.offers[a].was = Sampled
    /\ tick.pc \in {"pass1", "evaluate"} => tick.secondRun = << >>
    /\ tick.pc = "pass2"
          => /\ tick.firstRun = tick.batch
             /\ tick.secondRun = SubSeq(tick.firstRun, 1, Len(tick.secondRun))
    /\ TickOver => tick.secondRun = tick.firstRun

\* a tick is over in which a SecondChance trace was offered after a
\* provisionally Sampled trace that stands behind it in the batch
C21_Witness ==
    /\ TickOver
    /\ Len(tick.batch) = 2
    /\ tick.batch[1] # tick.batch[2]
    /\ Len(tick.offers) = 2
    /\ tick.offers[1].id = tick.batch[2] /\ tick.offers[1].was = Sampled
    /\ tick.offers[2].id = tick.batch[1] /\ tick.offers[2].was = SecondChance

\* C22: SecondChance is transient: when a tick returns, every record in the
\* store whose id was in the tick's batch has the final decision Sampled or
\* NotSampled, none has SecondChance.
C22_ResolvedWhenTickReturns ==
    TickOver => \A t \in Range(tick.batch) \cap Live :
                    Rec(t).FinalDecision \in {Sampled, NotSampled}

\* C23: whatever the policies returned (Sampled, NotSampled, SecondChance or
\* an error, recorded as NotSampled), the provisional decision that
\* makeProvisionalDecision returns is Sampled if any policy returned Sampled,
\* otherwise SecondChance if any returned SecondChance, otherwise NotSampled.
C23_ProvisionalDecision ==
    (tick.pc = "evaluate" /\ tick.p > lenPolicies)
    => tick.provisionalDecision = Provisional(heap[tick.trace])

\* C24: every call updateRate(currSecond, numSpans) of the decision loop does
\* what the reference arbiter does: when currSecond differs from the stored
\* second the counter is reset to 0 and the stored second updated; then, if
\* counter + numSpans <= spans_per_second, the counter becomes counter +
\* numSpans and the result is Sampled, otherwise the result is NotSampled and
\* the counter is left as it is.
C24_UpdateRateIsReference ==
    [][Len(tick'.offers) > Len(tick.offers)
       => LET id == tick'.offers[Len(tick'.offers)].id
              numSpans == Rec(id).SpanCount
              counter == IF currentSecond # tick.currSecond THEN 0
                         ELSE spansInCurrentSecond
          IN /\ currentSecond' = tick.currSecond
             /\ IF counter + numSpans <= SpansPerSecond
                THEN /\ spansInCurrentSecond' = counter + numSpans
                     /\ heap'[idToTrace[id]].FinalDecision = Sampled
                ELSE /\ spansInCurrentSecond' = counter
                     /\ heap'[idToTrace[id]].FinalDecision = NotSampled]_vars

\* the arbiter admitted a trace in second 0 and, its counter reset, another
\* in second 1
C24_Witness ==
    /\ consumed.admitted[0] > 0
    /\ tick.currSecond = 1
    /\ tick.spansAtStart = 0
    /\ tick.offers # << >>
    /\ currentSecond = 1
    /\ spansInCurrentSecond > 0

\* C25: an ingest call that finds no record for its trace id creates one
\* with every per-policy decision Pending and span_count the number of spans
\* of its group, adds the id once to the batcher's current slot and adds one
\* to the live-record counter; before it goes on it pushes the id onto the
\* eviction FIFO, once; nothing else adds to the slot or to the FIFO.
C25_NewRecord ==
    [][/\ \A c \in Callers :
             /\ (ingest[c].pc = "idle" /\ ingest'[c].pc = "select")
                => LET id == ingest'[c].id
                       r == heap'[idToTrace'[id]]
                   IN /\ idToTrace[id] = 0
                      /\ ingest'[c].actualData = idToTrace'[id]
                      /\ \A i \in 1..lenPolicies : r.Decisions[i] = Pending
                      /\ r.SpanCount = ingest'[c].lenSpans
                      /\ r.ReceivedBatches = << >>
                      /\ currentBatch' = Append(currentBatch, id)
                      /\ numTracesOnMap' = numTracesOnMap + 1
                      /\ deleteChan' = deleteChan
             /\ (ingest[c].pc = "idle" /\ ingest'[c].pc # "idle")
                => (ingest'[c].pc = "select" <=> idToTrace[ingest'[c].id] = 0)
             /\ (ingest[c].pc = "select" /\ ingest'[c].pc = "policy")
                => deleteChan' = Append(deleteChan, ingest[c].id)
             /\ ingest[c].pc \in {"select", "receive", "dropTrace"}
                => ingest'[c].pc \in {"select", "receive", "dropTrace", "policy"}
             /\ ingest[c].pc \in {"AddSpanCount", "policy"}
                => ingest'[c].pc \in {"AddSpanCount", "policy", "idle"}
       /\ Len(currentBatch') > Len(currentBatch)
          => \E c \in Callers : ingest[c].pc = "idle" /\ ingest'[c].pc = "select"
       /\ numTracesOnMap' > numTracesOnMap
          => \E c \in Callers : ingest[c].pc = "idle" /\ ingest'[c].pc = "select"
       /\ Len(deleteChan') > Len(deleteChan)
          => \E c \in Callers : ingest[c].pc = "select" /\ ingest'[c].pc = "policy"
      ]_vars

\* a call has created a record, made room in the full FIFO and pushed its id
C25_Witness ==
    \E c \in Callers :
        /\ ingest[c].pc = "policy"
        /\ idToTrace[ingest[c].id] = ingest[c].actualData
        /\ heap[ingest[c].actualData].SpanCount = ingest[c].lenSpans
        /\ Len(deleteChan) = maxNumTraces
        /\ deleteChan[Len(deleteChan)] = ingest[c].id
        /\ ingest[c].id \in Range(currentBatch)
        /\ numTracesOnMap = Cardinality(Live)
        /\ ningests > maxNumTraces

\* the call of caller c is in its policy loop, on a record no policy has
\* decided yet
OnPending(c) ==
    /\ ingest[c].pc = "policy"
    /\ \A i \in 1..lenPolicies : heap[ingest[c].actualData].Decisions[i] = Pending

\* C26: an ingest call that handles a span group while the record's decision
\* is still Pending appends the group to received_batches exactly once,
\* however many policies are configured: its next step puts the group behind
\* the groups already there, which stay as they are and in order, and the
\* call returns. No step but the second run's detaching changes the groups of
\* a record in any other way.
C26_AppendedOnce ==
    [][/\ \A c \in Callers :
             (OnPending(c) /\ ingest'[c] # ingest[c])
             => /\ heap'[ingest[c].actualData].ReceivedBatches =
                      Append(heap[ingest[c].actualData].ReceivedBatches,
                             ingest[c].lenSpans)
                /\ ingest'[c].pc = "idle"
       /\ \A r \in Refs :
             (/\ heap[r] # NoRec
              /\ heap'[r] # NoRec
              /\ heap'[r].ArrivalTime = heap[r].ArrivalTime
              /\ heap'[r].ReceivedBatches # heap[r].ReceivedBatches)
             => \/ /\ heap'[r].ReceivedBatches = << >>
                   /\ tick.pc = "pass2"
                \/ \E c \in Callers :
                      /\ ingest[c].pc = "policy"
                      /\ ingest[c].actualData = r
                      /\ ingest'[c].pc = "idle"
                      /\ heap'[r].ReceivedBatches =
                            Append(heap[r].ReceivedBatches, ingest[c].lenSpans)
      ]_vars

\* three calls have each appended their span group to an undecided record
C26_Witness ==
    \E t \in Live :
        /\ Len(Rec(t).ReceivedBatches) = 3
        /\ \A i \in 1..lenPolicies : Rec(t).Decisions[i] = Pending
        /\ \A c \in Callers : ingest[c].pc = "idle"

\* C27: for a late span group of a decided trace, ingest walks the policies
\* in order. A policy whose recorded decision is NotSampled is notified with
\* NotSampled, nothing is forwarded for it and the walk goes on; at the first
\* policy whose recorded decision is Sampled the group is forwarded once,
\* that policy is notified with Sampled and the call returns, so that later
\* policies are neither notified nor forward again. Nothing else notifies a
\* policy or forwards a late group.
C27_LateWalk ==
    [][/\ \A c \in Callers :
             (ingest[c].pc = "policy" /\ ingest'[c] # ingest[c])
             => LET i == ingest[c].i
                    decisions == heap[ingest[c].actualData].Decisions
                IN /\ decisions[i] = NotSampled
                      => /\ consumed'.notified =
                               Append(consumed.notified,
                                      [policy |-> i, decision |-> NotSampled])
                         /\ consumed'.late = consumed.late
                         /\ consumed'.all = consumed.all
                         /\ IF i < lenPolicies
                            THEN ingest'[c].pc = "policy" /\ ingest'[c].i = i + 1
                            ELSE ingest'[c].pc = "idle"
                   /\ decisions[i] = Sampled
                      => /\ \A j \in 1..(i - 1) : decisions[j] \notin {Sampled, Pending}
                         /\ consumed'.notified =
                               Append(consumed.notified,
                                      [policy |-> i, decision |-> Sampled])
                         /\ consumed'.late =
                               [consumed.late EXCEPT ![now] = @ + ingest[c].lenSpans]
                         /\ ingest'[c].pc = "idle"
       /\ (consumed'.notified # consumed.notified \/ consumed'.late # consumed.late)
          => \E c \in Callers :
                /\ ingest[c].pc = "policy"
                /\ ingest'[c] # ingest[c]
                /\ heap[ingest[c].actualData].Decisions[ingest[c].i]
                      \in {NotSampled, Sampled}
      ]_vars

\* a late span group went past a policy that had decided NotSampled and was
\* forwarded under the next, which had decided Sampled
C27_Witness ==
    /\ consumed.notified = << [policy |-> 1, decision |-> NotSampled],
                              [policy |-> 2, decision |-> Sampled] >>
    /\ consumed.latePolicy = 2
    /\ SumSeq([j \in 1..(MaxSecond + 1) |-> consumed.late[j - 1]]) = MaxGroupSpans
    /\ \A c \in Callers : ingest[c].pc = "idle"

\* C28: the periodic ticker is started exactly once, by the first ingest
\* call, however many calls follow and however they overlap; no decision
\* tick fires before the first ingest call.
C28_TickerStartedOnce ==
    /\ started = (IF ningests = 0 THEN 0 ELSE 1)
    /\ nticks > 0 => ningests > 0

\* two calls overlap after an earlier call and a tick, and one ticker runs
C28_Witness ==
    /\ started = 1
    /\ nticks > 0
    /\ ningests = MaxIngests
    /\ \A c \in Callers : ingest[c].pc # "idle"

\* C29 as stated: a record has selected_by_probabilistic_filter set only if
\* the rate arbiter admitted it, that is, once the tick is over, only if its
\* final decision is Sampled.
C29_SelectedOnlyIfAdmitted ==
    tick.pc = "idle"
    => \A t \in Live :
          Rec(t).SelectedByProbabilisticFilter => Rec(t).FinalDecision = Sampled

\* C29, amended: selected_by_probabilistic_filter of a record is set, and
\* never cleared, by the step of the decision loop in which the probabilistic
\* pre-filter returns Sampled for the trace, before the rate arbiter is
\* asked and whatever it then answers; nothing else sets it, and a new record
\* has it unset.
C29_SelectedWhenFilterSampled ==
    [][/\ \A r \in Refs :
             (/\ heap[r] # NoRec
              /\ heap'[r] # NoRec
              /\ heap'[r].ArrivalTime = heap[r].ArrivalTime
              /\ heap'[r].SelectedByProbabilisticFilter
                    # heap[r].SelectedByProbabilisticFilter)
             => /\ heap'[r].SelectedByProbabilisticFilter
                /\ tick.pc = "evaluate"
                /\ tick.p <= lenPolicies
                /\ r = tick.trace
                /\ policies[tick.p].probabilisticFilter
                /\ tick'.result = Sampled
                /\ heap'[r].FinalDecision = heap[r].FinalDecision
       /\ (/\ tick.pc = "evaluate"
           /\ tick.p <= lenPolicies
           /\ tick'.p = tick.p + 1
           /\ policies[tick.p].probabilisticFilter
           /\ tick'.result = Sampled)
          => heap'[tick.trace].SelectedByProbabilisticFilter
       /\ \A c \in Callers :
             (ingest[c].pc = "idle" /\ ingest'[c].pc = "select")
             => ~heap'[ingest'[c].actualData].SelectedByProbabilisticFilter
      ]_vars

\* a tick is over that left a trace the pre-filter had selected with the
\* final decision NotSampled
C29_Witness ==
    /\ tick.pc = "idle"
    /\ \E t \in Live :
          /\ Rec(t).SelectedByProbabilisticFilter
          /\ Rec(t).Decisions[1] = Sampled
          /\ Rec(t).FinalDecision = NotSampled

\* the span_counts of the first-run offers from position a on that the
\* arbiter admitted for a record marked as selected by the probabilistic
\* filter
RECURSIVE ProbabilisticSpans(_, _)
ProbabilisticSpans(offers, a) ==
    IF a > Len(offers) THEN 0
    ELSE (IF offers[a].was = Sampled /\ offers[a].decision = Sampled
             /\ offers[a].selected
          THEN Rec(offers[a].id).SpanCount ELSE 0)
         + ProbabilisticSpans(offers, a + 1)

\* the span_counts of the records found for the ids of the batch from
\* position j on
RECURSIVE FoundSpans(_, _)
FoundSpans(batch, j) ==
    IF j > Len(batch) THEN 0
    ELSE (IF batch[j] \in Live THEN Rec(batch[j]).SpanCount ELSE 0)
         + FoundSpans(batch, j + 1)

\* C30: in a tick, every emitted trace that was selected by the
\* probabilistic pre-filter is tagged with the same ratio: its numerator is
\* the sum of span_count over the traces of the batch that the arbiter
\* admitted as Sampled with selected_by_probabilistic_filter set, its
\* denominator the sum of span_count over the traces of the batch found in
\* the store.
C30_ProbabilityRatio ==
    tick.pc = "pass2"
    => /\ \A e \in 1..Len(tick.tags) :
             /\ tick.tags[e].probabilisticSpans = ProbabilisticSpans(tick.offers, 1)
             /\ tick.tags[e].allSpans = FoundSpans(tick.batch, 1)
       /\ Len(tick.tags) =
             Cardinality({j \in 1..Len(tick.forwarded) :
                             /\ tick.forwarded[j]
                             /\ Rec(tick.batch[j]).SelectedByProbabilisticFilter})

\* a tick is over that emitted, of a batch of two traces found, the one the
\* probabilistic filter selected, tagged with 1 of 2 spans
C30_Witness ==
    /\ TickOver
    /\ Len(tick.batch) = 2
    /\ tick.forwarded = << TRUE, TRUE >>
    /\ Len(tick.tags) = 1
    /\ tick.tags[1].probabilisticSpans = 1
    /\ tick.tags[1].allSpans = 2

\* C31: the policy list of an engine that was created has the probabilistic
\* pre-filter at its first position exactly when probabilistic_filtering_ratio
\* is present and greater than 0; the configured policies follow in their
\* configured order; when the ratio is absent or not positive the list is
\* the configured policies only.
C31_PolicyList ==
    lifecycle = "created"
    => LET ratio == cfg.ProbabilisticFilteringRatio
           configured == cfg.PolicyCfgs
           present == ratio # << >> /\ ratio[1] > 0
           first == IF present THEN 1 ELSE 0
           ps == tsp.policies
       IN /\ Len(ps) = first + Len(configured)
          /\ \A i \in 1..Len(ps) : ps[i].probabilisticFilter <=> (present /\ i = 1)
          /\ present => ps[1].Name = "probabilistic_filter"
          /\ \A i \in 1..Len(configured) :
                ps[first + i].Name = configured[i].Name

\* an engine with the pre-filter and two configured policies behind it, in
\* the order of the configuration
C31_Witness ==
    /\ lifecycle = "created"
    /\ cfg.ProbabilisticFilteringRatio = << 1 >>
    /\ cfg.PolicyCfgs = << [Name |-> "test-policy-2"], [Name |-> "test-policy-1"] >>
    /\ Len(tsp.policies) = 3
    /\ tsp.policies[1].probabilisticFilter
    /\ tsp.policies[2].Name = "test-policy-2"
    /\ tsp.policies[3].Name = "test-policy-1"

\* C32: the id batcher is created with depth ceil(decision_wait in seconds)
\* for every configured decision_wait, the ones that are not a whole number
\* of seconds included.
C32_DepthIsCeil ==
    lifecycle = "created"
    => tsp.numDecisionBatches =
          (cfg.DecisionWait + DurationsPerSecond - 1) \div DurationsPerSecond

\* the number of the slot that the running tick popped: a tick closes the
\* slot being filled and takes the one closed numDecisionBatches - 1 ticks
\* before
PoppedSlot == nticks - numDecisionBatches

\* C33: the decision loop evaluates a trace record only in the tick that pops
\* the batcher slot which got the record's id when the record was created,
\* never in an earlier tick, whatever the ingests, evictions and ticks.
C33_EvaluatedInOwnTick ==
    tick.pc = "evaluate" => heap[tick.trace].Slot = PoppedSlot

\* C34: the event machine processes events serially: at any time at most one
\* event callback is executing, so that the callback of an event starts only
\* after the callback of the event dequeued before it has finished.
C34_OneCallbackAtATime == Cardinality(em.executing) <= 1

\* C35: late-arriving spans of a trace whose final decision is NotSampled are
\* never forwarded to the downstream consumer, also when a policy voted
\* Sampled for the trace and the rate arbiter rejected it.
C35_NoLateForwardOfRejected ==
    [][\A c \in Callers :
          ( /\ ingest[c].pc = "policy"
            /\ ingest'[c] # ingest[c]
            /\ heap[ingest[c].actualData].FinalDecision = NotSampled )
          => consumed'.late = consumed.late]_vars

\* C36: under any interleaving of ingest callers with a tick, the second
\* pass never empties the received_batches of a record whose per-policy
\* decisions are all still Pending (a record evicted and created again
\* between the two passes, say): no buffered span group is discarded without
\* a decision.
C36_DetachesOnlyEvaluated ==
    [][\A r \in Refs :
          ( /\ heap[r] # NoRec
            /\ heap'[r] # NoRec
            /\ heap'[r].ArrivalTime = heap[r].ArrivalTime
            /\ heap[r].ReceivedBatches # << >>
            /\ heap'[r].ReceivedBatches = << >> )
          => \E i \in 1..lenPolicies : heap[r].Decisions[i] # Pending]_vars

\* C37: provided ticks keep firing, every trace id that ingest adds to the
\* batcher is eventually popped in the batch of some tick, and at that tick
\* it is given the final decision Sampled or NotSampled, or is counted as
\* dropped too early; no id stays in the batcher forever.
C37_PoppedAndDecided ==
    \A t \in TraceIds :
        (t \in InBatcher)
        ~> ( /\ TickOver
             /\ t \in Range(tick.batch)
             /\ \/ t \notin Live /\ tick.idNotFoundOnMapCount > 0
                \/ t \in Live /\ Rec(t).FinalDecision \in {Sampled, NotSampled} )

\* C38: an ingest call for a trace id that has a record in the store leaves
\* the set of live trace ids, the live-record counter, the eviction FIFO and
\* every batcher slot as they are; of the records it changes only that one,
\* and of it only span_count, which grows by the spans of the group, and,
\* while the decision is Pending, received_batches.
C38_ExistingRecordFrame ==
    [][\A c \in Callers :
          LET me == ingest[c]
              found == me.pc = "idle" /\ ingest'[c].pc = "AddSpanCount"
              r == IF found THEN idToTrace[ingest'[c].id] ELSE me.actualData
          IN (found \/ (me.pc \in {"AddSpanCount", "policy"} /\ ingest'[c] # me))
             => /\ UNCHANGED << idToTrace, numTracesOnMap, deleteChan,
                                currentBatch, batches >>
                /\ \A q \in Refs \ {r} : heap'[q] = heap[q]
                /\ heap'[r] # NoRec
                   => /\ heap'[r].Decisions = heap[r].Decisions
                      /\ heap'[r].FinalDecision = heap[r].FinalDecision
                      /\ heap'[r].SelectedByProbabilisticFilter
                            = heap[r].SelectedByProbabilisticFilter
                      /\ heap'[r].ArrivalTime = heap[r].ArrivalTime
                      /\ heap'[r].SpanCount =
                            heap[r].SpanCount
                            + (IF me.pc = "AddSpanCount" THEN me.lenSpans ELSE 0)
                      /\ heap'[r].ReceivedBatches # heap[r].ReceivedBatches
                         => /\ me.pc = "policy"
                            /\ heap[r].Decisions[me.i] = Pending
                            /\ heap'[r].ReceivedBatches =
                                  Append(heap[r].ReceivedBatches, me.lenSpans)]_vars

\* a call has brought a second span for a record that a tick had decided:
\* the record counts two spans and buffers none, and nothing else has moved
C38_Witness ==
    /\ \A c \in Callers : ingest[c].pc = "idle"
    /\ ningests = 2
    /\ nticks = 1
    /\ tick.pc = "idle"
    /\ Cardinality(Live) = 1
    /\ numTracesOnMap = 1
    /\ Len(deleteChan) = 1
    /\ currentBatch = << >>
    /\ \E t \in Live :
          /\ Rec(t).FinalDecision = NotSampled
          /\ Rec(t).SpanCount = 2 * MaxGroupSpans
          /\ Rec(t).ReceivedBatches = << >>

\* C39: under any interleaving of ingest callers, every id in the eviction
\* FIFO has a record in the store and no id is in the FIFO twice; so
\* dropTrace is never called for an id that is not in the store, and the id
\* a call is about to drop is no longer in the FIFO.
C39_FifoIdsLive ==
    /\ \A j \in 1..Len(deleteChan) : deleteChan[j] \in Live
    /\ \A j, k \in 1..Len(deleteChan) : j # k => deleteChan[j] # deleteChan[k]
    /\ \A c \in Dropping :
          /\ ingest[c].traceKeyToDrop \in Live
          /\ \A j \in 1..Len(deleteChan) : deleteChan[j] # ingest[c].traceKeyToDrop

\* two calls stored a new id each and found the FIFO full: one has taken
\* the only id off it and is about to drop its record, the other waits
C39_Witness ==
    /\ maxNumTraces = 1
    /\ Cardinality(Dropping) = 1
    /\ Cardinality(Receivers) = 1
    /\ deleteChan = << >>
    /\ Cardinality(Live) = 3
    /\ \A c \in Dropping : ingest[c].traceKeyToDrop \in Live

\* no ingest call is in progress
NoIngestInProgress == \A c \in Callers : ingest[c].pc = "idle"

\* C40: whenever no ingest call is in progress the counter numTracesOnMap
\* equals the number of records in the store and the length of the eviction
\* FIFO; under any interleaving the counter is at least the number of ids
\* queued or taken off the FIFO to be dropped, so a decrement never takes
\* it below zero.
C40_CounterMatchesStore ==
    /\ NoIngestInProgress
       => /\ numTracesOnMap = Cardinality(Live)
          /\ numTracesOnMap = Len(deleteChan)
    /\ numTracesOnMap >= Len(deleteChan) + Cardinality(Dropping)
    /\ numTracesOnMap >= 0

\* three calls have returned: the third found the FIFO full and dropped the
\* record of the first, the records of the second and third are counted
C40_Witness ==
    /\ NoIngestInProgress
    /\ maxNumTraces = 2
    /\ numTracesOnMap = 2
    /\ Len(deleteChan) = 2
    /\ {Rec(deleteChan[j]).ArrivalTime : j \in 1..2} = {2, 3}

====
